---- MODULE Spec2Model ----
(***************************************************************************)
(* A model of cjennings/archangel, docs/scripts:                           *)
(*   eml-view-and-extract-attachments.py  (the staged extraction pipeline) *)
(*   maildir-flag-manager.py              (the flag-rename engine)         *)
(*                                                                         *)
(* A text (a Python str) is a sequence of one-character strings.  A        *)
(* directory is a function from the names of the files it holds to their   *)
(* contents.  A content is a pair <<kind, n>>.                             *)
(***************************************************************************)
EXTENDS Integers, Sequences, FiniteSets, TLC

(***************************************************************************)
(* Bounds of the model.                                                    *)
(***************************************************************************)
\* the longest part list (msg.walk()) of a message
MaxParts == 2
\* the most files the destination holds before the first run
MaxPre == 1
\* how many times process_eml is run on the same message and destination
MaxRuns == 2

(***************************************************************************)
(* Texts.                                                                  *)
(***************************************************************************)
\* Python's None
None == <<"None">>

\* s[a:b] with 1-based inclusive bounds; empty when a > b
Slice(s, a, b) == IF a > b THEN <<>> ELSE SubSeq(s, a, b)

\* the characters of \w the model uses (letters, digits, underscore)
WordChars == {"a", "b", "p", "s", "B", "E", "M", "A", "I", "L", "T", "C", "H",
              "F", "S", "R", "m", "e", "t", "x", "n", "o", "u", "j", "c",
              "d", "0", "1", "2", "_", "f", "r", "y", "k", "w"}

\* str.strip(): whitespace removed at both ends (the model's only whitespace is " ")
RECURSIVE StripWs(_)
StripWs(s) ==
    IF s = <<>> THEN s
    ELSE IF Head(s) = " " THEN StripWs(Tail(s))
    ELSE IF s[Len(s)] = " " THEN StripWs(Slice(s, 1, Len(s) - 1))
    ELSE s

\* str.strip('-')
RECURSIVE StripHyphens(_)
StripHyphens(s) ==
    IF s = <<>> THEN s
    ELSE IF Head(s) = "-" THEN StripHyphens(Tail(s))
    ELSE IF s[Len(s)] = "-" THEN StripHyphens(Slice(s, 1, Len(s) - 1))
    ELSE s

\* str.rstrip('-')
RECURSIVE RStripHyphens(_)
RStripHyphens(s) ==
    IF s = <<>> THEN s
    ELSE IF s[Len(s)] = "-" THEN RStripHyphens(Slice(s, 1, Len(s) - 1))
    ELSE s

\* text.replace(' ', '-')
SpacesToHyphens(s) == [i \in 1..Len(s) |-> IF s[i] = " " THEN "-" ELSE s[i]]

\* re.sub(r'[^\w\-.]', '', text)
KeepSafe(s) == SelectSeq(s, LAMBDA c : c \in WordChars \cup {"-", "."})

\* re.sub(r'-{2,}', '-', text)
\* (of every run of hyphens the last one is kept)
CollapseHyphens(s) ==
    LET kept == SelectSeq([x \in 1..Len(s) |-> x],
                          LAMBDA x : ~(s[x] = "-" /\ x < Len(s) /\ s[x + 1] = "-"))
    IN  [x \in 1..Len(kept) |-> s[kept[x]]]

\* the default of _clean_for_filename's max_length
MaxLength == 80

\* a seeded fault of CleanForFilename: the text cut at max_length keeps a
\* hyphen at its end
CleanForFilenameCutOnly(text, max_length) ==
    LET t == StripHyphens(CollapseHyphens(KeepSafe(SpacesToHyphens(StripWs(text)))))
    IN  Slice(t, 1, IF Len(t) > max_length THEN max_length ELSE Len(t))

\* _clean_for_filename(text, max_length)
CleanForFilename(text, max_length) ==
    LET t == StripHyphens(CollapseHyphens(KeepSafe(SpacesToHyphens(StripWs(text)))))
    IN  IF Len(t) > max_length
        THEN RStripHyphens(Slice(t, 1, max_length))
        ELSE t

\* str.rfind(c) as a 1-based index, 0 when c does not occur (Python's -1)
RECURSIVE RFind(_, _)
RFind(s, c) ==
    IF s = <<>> THEN 0
    ELSE IF s[Len(s)] = c THEN Len(s)
    ELSE RFind(Slice(s, 1, Len(s) - 1), c)

\* the first index in from..dot-1 whose character is not a dot, 0 if none
RECURSIVE FirstNonDot(_, _, _)
FirstNonDot(p, from, dot) ==
    IF from >= dot THEN 0
    ELSE IF p[from] # "." THEN from
    ELSE FirstNonDot(p, from + 1, dot)

\* os.path.splitext(p): <<root, ext>>; leading dots of the last component
\* do not start an extension
SplitExt(p) ==
    LET sepIndex == RFind(p, "/")
        dotIndex == RFind(p, ".")
    IN  IF dotIndex > sepIndex /\ FirstNonDot(p, sepIndex + 1, dotIndex) # 0
        THEN <<Slice(p, 1, dotIndex - 1), Slice(p, dotIndex, Len(p))>>
        ELSE <<p, <<>>>>

\* the literals of the filename functions
LitEmail == <<"-", "E", "M", "A", "I", "L", "-">>
LitAttach == <<"-", "A", "T", "T", "A", "C", "H", "-">>
LitNoSubject == <<"n", "o", "-", "s", "u", "b", "j", "e", "c", "t">>
LitUnnamed == <<"u", "n", "n", "a", "m", "e", "d">>
ExtEml == <<".", "e", "m", "l">>
ExtTxt == <<".", "t", "x", "t">>

\* Python truthiness of an optional text: None and '' are false
Truthy(s) == s # None /\ s # <<>>

\* a seeded fault of GenerateEmailFilename: the literal is also used when
\* cleaning leaves nothing of the subject
GenerateEmailFilenameNeverEmpty(basename, subject) ==
    basename \o LitEmail \o
        (IF Truthy(subject) /\ CleanForFilename(subject, MaxLength) # <<>>
         THEN CleanForFilename(subject, MaxLength)
         ELSE LitNoSubject)

\* generate_email_filename(basename, subject)
GenerateEmailFilename(basename, subject) ==
    basename \o LitEmail \o
        (IF Truthy(subject) THEN CleanForFilename(subject, MaxLength) ELSE LitNoSubject)

\* a seeded fault of GenerateAttachmentFilename: the whole name is cleaned,
\* extension included
GenerateAttachmentFilenameCleanAll(basename, original_filename) ==
    IF ~Truthy(original_filename)
    THEN basename \o LitAttach \o LitUnnamed
    ELSE basename \o LitAttach \o CleanForFilename(original_filename, MaxLength)

\* generate_attachment_filename(basename, original_filename)
GenerateAttachmentFilename(basename, original_filename) ==
    IF ~Truthy(original_filename)
    THEN basename \o LitAttach \o LitUnnamed
    ELSE LET se == SplitExt(original_filename)
         IN  basename \o LitAttach \o CleanForFilename(se[1], MaxLength) \o se[2]

(***************************************************************************)
(* Directories.                                                            *)
(***************************************************************************)
EmptyDir == << >>

\* open(path, 'w').write(content), or a rename onto path: the file is created or replaced
WriteFile(dir, name, content) ==
    [n \in DOMAIN dir \cup {name} |-> IF n = name THEN content ELSE dir[n]]

\* the directory without the file
RemoveFile(dir, name) == [n \in DOMAIN dir \ {name} |-> dir[n]]

\* os.path.exists(os.path.join(dir, name))
Exists(dir, name) == name \in DOMAIN dir

(***************************************************************************)
(* The messages the pipeline is run on.  A message is its derived basename,*)
(* its Subject header and the list of its parts in msg.walk() order.       *)
(***************************************************************************)
\* the parts: a multipart container, a body part, two attachments whose
\* filenames differ and clean to the same name, an attachment with another
\* name, a part with a disposition and no filename, a part with a filename
\* (Content-Type name) and no disposition
PartKinds ==
    { [multipart |-> TRUE,  disposition |-> FALSE, filename |-> None],
      [multipart |-> FALSE, disposition |-> FALSE, filename |-> None],
      [multipart |-> FALSE, disposition |-> TRUE,  filename |-> <<"a", " ", "b", ".", "p">>],
      [multipart |-> FALSE, disposition |-> TRUE,  filename |-> <<"a", "-", "b", ".", "p">>],
      [multipart |-> FALSE, disposition |-> TRUE,  filename |-> <<"b", ".", "p">>],
      [multipart |-> FALSE, disposition |-> TRUE,  filename |-> None],
      [multipart |-> FALSE, disposition |-> FALSE, filename |-> <<"c", ".", "p">>] }

PartLists == UNION {[1..n -> PartKinds] : n \in 0..MaxParts}

Subjects == {<<"s", " ", "s">>}

\* the basename generate_basename derives from the message's Date and From
Basenames == {<<"B">>}

Messages == [basename : Basenames, subject : Subjects, parts : PartLists]

\* the name of the source message file, and its content
SrcName == <<"m", ".", "e", "m", "l">>
SrcContent == <<"src", 0>>
\* the text extract_body selects, as the content of the .txt file
BodyContent == <<"body", 0>>
\* part.get_payload(decode=True) of the i-th part
Payload(i) == <<"att", i>>
\* the content of a file the destination held before the first run
OldContent == <<"old", 0>>

\* the names a run on one of Messages can produce, and one (from the part
\* without a disposition) that no run produces
CandidateNames ==
    { GenerateEmailFilename(b, s) \o ExtEml : b \in Basenames, s \in Subjects }
    \cup { GenerateEmailFilename(b, s) \o ExtTxt : b \in Basenames, s \in Subjects }
    \cup { GenerateAttachmentFilename(b, k.filename) :
             b \in Basenames, k \in {q \in PartKinds : Truthy(q.filename)} }

\* the destinations: at most MaxPre files, each with old content
InitialDirs ==
    { [n \in S |-> OldContent] : S \in {T \in SUBSET CandidateNames : Cardinality(T) <= MaxPre} }

(***************************************************************************)
(* State of the extraction pipeline.                                       *)
(***************************************************************************)
VARIABLES
    msg,            \* the parsed message (email.message_from_binary_file)
    inbox,          \* the directory of the source file (eml_dir)
    output,         \* the destination directory (output_dir)
    outputExists,   \* whether the destination directory exists
    tempExists,     \* whether temp_dir exists
    temp,           \* the files of temp_dir
    pc,             \* the position of process_eml
    i,              \* the index of the loop process_eml is in
    attachment_results, \* the list save_attachments builds
    files,          \* the FileRecord list
    result,         \* "none" while running, "ok" on return, else the exception
    errName,        \* the name the FileExistsError message carries
    run,            \* the number of the run
    pre,            \* the destination's files when the run began
    staged,         \* the names in temp_dir when the file list was built
    checked,        \* how many FileRecords the collision check has passed
    moved,          \* how many shutil.move calls of the run have returned
    prevResult,     \* the result of the run before this one
    outputExisted,  \* whether the destination directory existed at the call
    otherPc,        \* the position of another run on the same destination
    otherI,         \* the index of the loop the other run is in
    otherResult,    \* the other run's result
    gapWrites,      \* names the other run wrote after this run's check of them
    srcName,        \* os.path.basename(eml_path)
    sameDir         \* whether output_dir is the source file's directory (eml_dir)

\* the variables of the other run
raceVars == <<otherPc, otherI, otherResult, gapWrites>>

\* the source file's name and whether the destination is its directory
srcVars == <<srcName, sameDir>>

emlVars == <<msg, inbox, output, outputExists, tempExists, temp, pc, i,
             attachment_results, files, result, errName, run, pre, staged,
             checked, moved, prevResult, outputExisted, raceVars, srcVars>>

(***************************************************************************)
(* State of the flag-rename engine: one mailbox (maildir_root).            *)
(***************************************************************************)
VARIABLES
    new,            \* the files of <maildir_root>/new: name -> message
    cur,            \* the files of <maildir_root>/cur: name -> message
    call,           \* the last call of rename_with_flag, with what it returned
    prevCall,       \* the call before it
    preNew,         \* new/ when the last call began
    preCur          \* cur/ when the last call began

mdVars == <<new, cur, call, prevCall, preNew, preCur>>

(***************************************************************************)
(* State of a command of maildir-flag-manager.py (cmd_mark_read, cmd_star) *)
(* on the mailbox.                                                         *)
(***************************************************************************)
VARIABLES
    other,          \* the files of a sibling directory not named new or cur
    present,        \* which of new/ and cur/ exist
    maildirExists,  \* whether the configured mailbox directory exists
    args,           \* the parsed arguments: command, paths, dry_run, reindex, mark_read
    cpc,            \* the position of the command
    cmdFlag,        \* the flag of the process_* call in progress
    index,          \* the index of process_specific_files' loop, or of the account loop
    subdirIndex,    \* the index of process_maildir's loop over ('new', 'cur')
    listing,        \* what is left of os.listdir(subdir_path)
    listed,         \* whether os.listdir(subdir_path) has been called
    counts,         \* changed, skipped, errors of the process_* call in progress
    totals,         \* total_changed, total_skipped, total_errors
    exitCode,       \* what the command returns
    muCalls,        \* how many times reindex_mu was called
    muOutcome,      \* what reindex_mu met: no mu, success, failure, timeout
    log,            \* the per-file outcomes of the run, in order
    startNew,       \* new/ when the command began
    startCur,       \* cur/ when the command began
    startOther,     \* the sibling directory when the command began
    dryTotals       \* the totals of the dry run this real run repeats

cmdVars == <<other, present, maildirExists, args, cpc, cmdFlag, index, subdirIndex,
             listing, listed, counts, totals, exitCode, muCalls, muOutcome,
             log, startNew, startCur, startOther, dryTotals>>

(***************************************************************************)
(* State of a call of a pure function.                                     *)
(***************************************************************************)
VARIABLES
    fnArgs,         \* the arguments of the call
    fnReturned,     \* whether the call has returned
    fnResult        \* what the call returned, Pending before it returns

fnVars == <<fnArgs, fnReturned, fnResult>>

vars == <<emlVars, mdVars, cmdVars, fnVars>>

\* the derived names of the run (process_eml lines 257-268)
Basename == msg.basename
EmailStem == GenerateEmailFilename(Basename, msg.subject)
RenamedEml == EmailStem \o ExtEml
RenamedTxt == EmailStem \o ExtTxt

\* the files of the source file's directory (eml_dir)
SrcDir == IF sameDir THEN output ELSE inbox

\* os.path.join(output_dir, name)
DestPath(name) == <<"output", name>>

(***************************************************************************)
(* process_eml, one action per filesystem step.                            *)
(***************************************************************************)
\* the state before process_eml(eml_path, output_dir) is called
InitEml ==
    /\ msg \in Messages
    /\ inbox = [n \in {SrcName} |-> SrcContent]
    /\ output \in InitialDirs
    /\ outputExists \in BOOLEAN
    /\ (~outputExists => output = EmptyDir)
    /\ tempExists = FALSE
    /\ temp = EmptyDir
    /\ pc = "call"
    /\ i = 1
    /\ attachment_results = <<>>
    /\ files = <<>>
    /\ result = "none"
    /\ errName = None
    /\ run = 1
    /\ pre = output
    /\ staged = {}
    /\ checked = 0
    /\ moved = 0
    /\ prevResult = "none"
    /\ outputExisted = outputExists
    /\ srcName = SrcName
    /\ sameDir = FALSE
    /\ otherPc = "idle"
    /\ otherI = 1
    /\ otherResult = "none"
    /\ gapWrites = {}

\* a seeded fault of Makedirs: the destination directory is not created
MakedirsLeftOut ==
    /\ pc = "call"
    /\ pc' = "mkdtemp"
    /\ UNCHANGED <<msg, inbox, output, outputExists, tempExists, temp, i,
                   attachment_results, files, result, errName, run, pre, staged,
                   checked, moved, prevResult, outputExisted, raceVars>>
    /\ UNCHANGED <<mdVars, cmdVars, fnVars, srcVars>>

\* os.makedirs(output_dir, exist_ok=True)
Makedirs ==
    /\ pc = "call"
    /\ outputExists' = TRUE
    /\ pc' = "mkdtemp"
    /\ UNCHANGED <<msg, inbox, output, tempExists, temp, i, attachment_results,
                   files, result, errName, run, pre, staged, checked, moved,
                   prevResult, outputExisted, raceVars>>
    /\ UNCHANGED <<mdVars, cmdVars, fnVars, srcVars>>

\* temp_dir = tempfile.mkdtemp(prefix='extract-', dir=eml_dir)
Mkdtemp ==
    /\ pc = "mkdtemp"
    /\ tempExists' = TRUE
    /\ temp' = EmptyDir
    /\ pc' = "copy"
    /\ UNCHANGED <<msg, inbox, output, outputExists, i, attachment_results,
                   files, result, errName, run, pre, staged, checked, moved,
                   prevResult, outputExisted, raceVars>>
    /\ UNCHANGED <<mdVars, cmdVars, fnVars, srcVars>>

\* a seeded fault of CopyEml: the source file is moved into temp_dir, not
\* copied
CopyEmlByMove ==
    /\ pc = "copy"
    /\ temp' = WriteFile(temp, srcName, SrcDir[srcName])
    /\ IF sameDir
       THEN output' = RemoveFile(output, srcName) /\ UNCHANGED inbox
       ELSE inbox' = RemoveFile(inbox, srcName) /\ UNCHANGED output
    /\ pc' = "rename"
    /\ UNCHANGED <<msg, outputExists, tempExists, i,
                   attachment_results, files, result, errName, run, pre, staged,
                   checked, moved,
                   prevResult, outputExisted, raceVars>>
    /\ UNCHANGED <<mdVars, cmdVars, fnVars, srcVars>>

\* shutil.copy2(eml_path, temp_eml); the message is then parsed from eml_path
CopyEml ==
    /\ pc = "copy"
    /\ temp' = WriteFile(temp, srcName, SrcDir[srcName])
    /\ pc' = "rename"
    /\ UNCHANGED <<msg, inbox, output, outputExists, tempExists, i,
                   attachment_results, files, result, errName, run, pre, staged,
                   checked, moved,
                   prevResult, outputExisted, raceVars>>
    /\ UNCHANGED <<mdVars, cmdVars, fnVars, srcVars>>

\* os.rename(temp_eml, renamed_eml_path)
RenameEml ==
    /\ pc = "rename"
    /\ temp' = WriteFile(RemoveFile(temp, srcName), RenamedEml, temp[srcName])
    /\ pc' = "savetext"
    /\ UNCHANGED <<msg, inbox, output, outputExists, tempExists, i,
                   attachment_results, files, result, errName, run, pre, staged,
                   checked, moved,
                   prevResult, outputExisted, raceVars>>
    /\ UNCHANGED <<mdVars, cmdVars, fnVars, srcVars>>

\* save_text(body, renamed_txt_path)
SaveText ==
    /\ pc = "savetext"
    /\ temp' = WriteFile(temp, RenamedTxt, BodyContent)
    /\ pc' = "attach"
    /\ i' = 1
    /\ attachment_results' = <<>>
    /\ UNCHANGED <<msg, inbox, output, outputExists, tempExists, files, result,
                   errName, run, pre, staged, checked, moved,
                   prevResult, outputExisted, raceVars>>
    /\ UNCHANGED <<mdVars, cmdVars, fnVars, srcVars>>

\* a seeded fault of Qualifies: the Content-Disposition test is left out
QualifiesNoDisposition(part) ==
    /\ ~part.multipart
    /\ Truthy(part.filename)

\* a seeded fault of Qualifies: the filename test is left out
QualifiesNoFilename(part) ==
    /\ ~part.multipart
    /\ part.disposition

\* save_attachments' test of a part: not multipart, a Content-Disposition
\* header, and a truthy filename
Qualifies(part) ==
    /\ ~part.multipart
    /\ part.disposition
    /\ Truthy(part.filename)

\* one iteration of save_attachments' loop over msg.walk()
SaveAttachment ==
    /\ pc = "attach"
    /\ i <= Len(msg.parts)
    /\ LET part == msg.parts[i]
           renamed == GenerateAttachmentFilename(Basename, part.filename)
       IN  IF Qualifies(part)
           THEN /\ temp' = WriteFile(temp, renamed, Payload(i))
                /\ attachment_results' =
                       Append(attachment_results,
                              [original_name |-> part.filename,
                               renamed_name |-> renamed,
                               path |-> <<"temp", renamed>>])
           ELSE UNCHANGED <<temp, attachment_results>>
    /\ i' = i + 1
    /\ UNCHANGED <<msg, inbox, output, outputExists, tempExists, pc, files,
                   result, errName, run, pre, staged, checked, moved,
                   prevResult, outputExisted, raceVars>>
    /\ UNCHANGED <<mdVars, cmdVars, fnVars, srcVars>>

\* a seeded fault of BuildFiles: an attach record keeps the staged path of
\* save_attachments' result
BuildFilesWithStagedPath(results) ==
    << [type |-> "eml", name |-> RenamedEml, path |-> None],
       [type |-> "txt", name |-> RenamedTxt, path |-> None] >>
    \o [k \in 1..Len(results) |->
          [type |-> "attach", name |-> results[k].renamed_name,
           path |-> results[k].path]]

\* the FileRecord list process_eml builds (lines 276-285)
BuildFiles(results) ==
    << [type |-> "eml", name |-> RenamedEml, path |-> None],
       [type |-> "txt", name |-> RenamedTxt, path |-> None] >>
    \o [k \in 1..Len(results) |->
          [type |-> "attach", name |-> results[k].renamed_name, path |-> None]]

\* save_attachments returns; the file list is built
BuildFileList ==
    /\ pc = "attach"
    /\ i > Len(msg.parts)
    /\ files' = BuildFiles(attachment_results)
    /\ staged' = DOMAIN temp
    /\ pc' = "check"
    /\ i' = 1
    /\ UNCHANGED <<msg, inbox, output, outputExists, tempExists, temp,
                   attachment_results, result, errName, run, pre, checked, moved,
                   prevResult, outputExisted, raceVars>>
    /\ UNCHANGED <<mdVars, cmdVars, fnVars, srcVars>>

\* a seeded fault of Collides: attach records are not tested
CollidesExceptAttach(file_info, dir) ==
    file_info.type # "attach" /\ Exists(dir, file_info.name)

\* a seeded fault of Collides: only attach records are tested
CollidesAttachOnly(file_info, dir) ==
    file_info.type = "attach" /\ Exists(dir, file_info.name)

\* a seeded fault of Collides: the test is left out
CollidesNever(file_info, dir) == FALSE

\* the collision loop's test of one FileRecord (lines 289-290)
Collides(file_info, dir) == Exists(dir, file_info.name)

\* a seeded fault of CheckCollision: one loop that tests a FileRecord and
\* moves it at once
CheckCollisionThenMove ==
    /\ pc = "check"
    /\ i <= Len(files)
    /\ IF Exists(output, files[i].name)
       THEN /\ result' = "collision"
            /\ errName' = files[i].name
            /\ pc' = "finally"
            /\ UNCHANGED <<i, checked, output, temp, files, moved>>
       ELSE /\ i' = i + 1
            /\ checked' = checked + 1
            /\ output' = WriteFile(output, files[i].name, temp[files[i].name])
            /\ temp' = RemoveFile(temp, files[i].name)
            /\ files' = [files EXCEPT ![i].path = DestPath(files[i].name)]
            /\ moved' = moved + 1
            /\ UNCHANGED <<result, errName, pc>>
    /\ UNCHANGED <<msg, inbox, outputExists, tempExists, attachment_results,
                   run, pre, staged, prevResult, outputExisted, raceVars>>
    /\ UNCHANGED <<mdVars, cmdVars, fnVars, srcVars>>

\* one iteration of the collision loop: raise FileExistsError or go on
CheckCollision ==
    /\ pc = "check"
    /\ i <= Len(files)
    /\ IF Collides(files[i], output)
       THEN /\ result' = "collision"
            /\ errName' = files[i].name
            /\ pc' = "finally"
            /\ UNCHANGED <<i, checked>>
       ELSE /\ i' = i + 1
            /\ checked' = checked + 1
            /\ UNCHANGED <<result, errName, pc>>
    /\ UNCHANGED <<msg, inbox, output, outputExists, tempExists, temp,
                   attachment_results, files, run, pre, staged, moved,
                   prevResult, outputExisted, raceVars>>
    /\ UNCHANGED <<mdVars, cmdVars, fnVars, srcVars>>

\* the collision loop ends without a collision
CheckDone ==
    /\ pc = "check"
    /\ i > Len(files)
    /\ pc' = "move"
    /\ i' = 1
    /\ UNCHANGED <<msg, inbox, output, outputExists, tempExists, temp,
                   attachment_results, files, result, errName, run, pre, staged,
                   checked, moved,
                   prevResult, outputExisted, raceVars>>
    /\ UNCHANGED <<mdVars, cmdVars, fnVars, srcVars>>

\* one iteration of the move loop: shutil.move(src, dest) raises
\* FileNotFoundError when src is not in temp_dir, else replaces dest
MoveFile ==
    /\ pc = "move"
    /\ i <= Len(files)
    /\ LET name == files[i].name
       IN  IF Exists(temp, name)
           THEN /\ output' = WriteFile(output, name, temp[name])
                /\ temp' = RemoveFile(temp, name)
                /\ files' = [files EXCEPT ![i].path = DestPath(name)]
                /\ i' = i + 1
                /\ moved' = moved + 1
                /\ UNCHANGED <<result, pc>>
           ELSE /\ result' = "error"
                /\ pc' = "finally"
                /\ UNCHANGED <<output, temp, files, i, moved>>
    /\ UNCHANGED <<msg, inbox, outputExists, tempExists, attachment_results,
                   errName, run, pre, staged, checked,
                   prevResult, outputExisted, raceVars>>
    /\ UNCHANGED <<mdVars, cmdVars, fnVars, srcVars>>

\* return {'metadata': ..., 'body': ..., 'files': files}
Return ==
    /\ pc = "move"
    /\ i > Len(files)
    /\ result' = "ok"
    /\ pc' = "finally"
    /\ UNCHANGED <<msg, inbox, output, outputExists, tempExists, temp, i,
                   attachment_results, files, errName, run, pre, staged, checked,
                   moved,
                   prevResult, outputExisted, raceVars>>
    /\ UNCHANGED <<mdVars, cmdVars, fnVars, srcVars>>

\* a seeded fault of Cleanup: temp_dir is removed after the return only,
\* not in a finally clause
CleanupOnSuccessOnly ==
    /\ pc = "finally"
    /\ IF result = "ok"
       THEN tempExists' = FALSE /\ temp' = EmptyDir
       ELSE UNCHANGED <<tempExists, temp>>
    /\ pc' = "exit"
    /\ UNCHANGED <<msg, inbox, output, outputExists, i, attachment_results,
                   files, result, errName, run, pre, staged, checked, moved,
                   prevResult, outputExisted, raceVars>>
    /\ UNCHANGED <<mdVars, cmdVars, fnVars, srcVars>>

\* finally: if os.path.exists(temp_dir): shutil.rmtree(temp_dir)
Cleanup ==
    /\ pc = "finally"
    /\ tempExists' = FALSE
    /\ temp' = EmptyDir
    /\ pc' = "exit"
    /\ UNCHANGED <<msg, inbox, output, outputExists, i, attachment_results,
                   files, result, errName, run, pre, staged, checked, moved,
                   prevResult, outputExisted, raceVars>>
    /\ UNCHANGED <<mdVars, cmdVars, fnVars, srcVars>>

\* process_eml is called again with the same message and destination
Rerun ==
    /\ pc = "exit"
    /\ run < MaxRuns
    /\ run' = run + 1
    /\ pc' = "call"
    /\ i' = 1
    /\ attachment_results' = <<>>
    /\ files' = <<>>
    /\ result' = "none"
    /\ errName' = None
    /\ pre' = output
    /\ staged' = {}
    /\ checked' = 0
    /\ moved' = 0
    /\ prevResult' = result
    /\ outputExisted' = outputExists
    /\ UNCHANGED <<msg, inbox, output, outputExists, tempExists, temp, raceVars>>
    /\ UNCHANGED <<mdVars, cmdVars, fnVars, srcVars>>

\* a filesystem call of the try block raises OSError (disk full, permission)
Fault ==
    /\ pc \in {"copy", "rename", "savetext", "attach", "move"}
    /\ (pc = "attach" => i <= Len(msg.parts) /\ Qualifies(msg.parts[i]))
    /\ (pc = "move" => i <= Len(files))
    /\ result' = "error"
    /\ pc' = "finally"
    /\ UNCHANGED <<msg, inbox, output, outputExists, tempExists, temp, i,
                   attachment_results, files, errName, run, pre, staged, checked,
                   moved,
                   prevResult, outputExisted, raceVars>>
    /\ UNCHANGED <<mdVars, cmdVars, fnVars, srcVars>>

\* os.makedirs or tempfile.mkdtemp raises: the try block is never entered
FaultBeforeTry ==
    /\ pc \in {"call", "mkdtemp"}
    /\ result' = "error"
    /\ pc' = "exit"
    /\ UNCHANGED <<msg, inbox, output, outputExists, tempExists, temp, i,
                   attachment_results, files, errName, run, pre, staged, checked,
                   moved,
                   prevResult, outputExisted, raceVars>>
    /\ UNCHANGED <<mdVars, cmdVars, fnVars, srcVars>>

(***************************************************************************)
(* The flag-rename engine (maildir-flag-manager.py).                       *)
(***************************************************************************)
\* the marker between the unique part and the flags
Marker == <<":", "2", ",">>

\* s.rfind(pat) as a 1-based index, 0 when pat does not occur
RECURSIVE FindLast(_, _, _)
FindLast(s, pat, k) ==
    IF k < 1 THEN 0
    ELSE IF k + Len(pat) - 1 <= Len(s) /\ SubSeq(s, k, k + Len(pat) - 1) = pat THEN k
    ELSE FindLast(s, pat, k - 1)

\* ord(c) of the characters of maildir names
Ord(c) ==
    CASE c = "," -> 44
      [] c = "2" -> 50
      [] c = ":" -> 58
      [] c = "F" -> 70
      [] c = "R" -> 82
      [] c = "S" -> 83
      [] c = "a" -> 97

\* the characters of a text
Chars(s) == {s[k] : k \in DOMAIN s}

\* ''.join(sorted(chars)) of a set of characters
RECURSIVE SortedText(_)
SortedText(S) ==
    IF S = {} THEN <<>>
    ELSE LET least == CHOOSE c \in S : \A d \in S : Ord(c) <= Ord(d)
         IN  <<least>> \o SortedText(S \ {least})

\* parse_maildir_flags(filename): <<base, flags>>, split at the last marker
ParseMaildirFlags(filename) ==
    LET k == FindLast(filename, Marker, Len(filename))
    IN  IF k # 0
        THEN <<Slice(filename, 1, k - 1), Slice(filename, k + 3, Len(filename))>>
        ELSE <<filename, <<>>>>

\* a seeded fault of BuildFlaggedFilename: the flags are appended as given
BuildFlaggedFilenameAsGiven(filename, new_flags) ==
    ParseMaildirFlags(filename)[1] \o Marker \o new_flags

\* build_flagged_filename(filename, new_flags)
BuildFlaggedFilename(filename, new_flags) ==
    ParseMaildirFlags(filename)[1] \o Marker \o SortedText(Chars(new_flags))

\* a seeded fault of AlreadySet: the flag is compared with the whole flags text
AlreadySetIfAlone(flag, current_flags) == current_flags = <<flag>>

\* rename_with_flag's test `flag in current_flags`
AlreadySet(flag, current_flags) == flag \in Chars(current_flags)

\* a seeded fault of TargetDir: the file always stays in its directory
TargetDirSame(subdir, flag, new_flags) == subdir

\* a seeded fault of TargetDir: only the flag being added is looked at
TargetDirByAddedFlag(subdir, flag, new_flags) ==
    IF flag = "S" /\ subdir = "new" THEN "cur" ELSE subdir

\* a seeded fault of TargetDir: the directory follows the Seen flag both ways
TargetDirBySeen(subdir, flag, new_flags) ==
    IF "S" \in Chars(new_flags) THEN "cur" ELSE "new"

\* rename_with_flag's choice of target_dir (lines 97-101)
TargetDir(subdir, flag, new_flags) ==
    IF "S" \in Chars(new_flags) /\ subdir = "new" THEN "cur" ELSE subdir

\* the flags the commands add: Seen (cmd_mark_read) and Flagged (cmd_star)
Flags == {"S", "F"}

\* the most message files of the mailbox
MaxMsgs == 2

\* the unique part of the model's message files
Unique == <<"a">>

\* file names: no marker, no flags, one flag, two flags sorted and unsorted,
\* and a unique part that itself holds a marker
MaildirNames ==
    { Unique,
      Unique \o Marker,
      Unique \o Marker \o <<"F">>,
      Unique \o Marker \o <<"S">>,
      Unique \o Marker \o <<"F", "S">>,
      Unique \o Marker \o <<"S", "F">>,
      Unique \o Marker \o <<"S">> \o Marker \o <<"F">> }

\* the pipeline's variables while the flag-rename engine runs
IdleEml ==
    /\ msg = [basename |-> <<"B">>, subject |-> None, parts |-> <<>>]
    /\ inbox = EmptyDir
    /\ output = EmptyDir
    /\ outputExists = FALSE
    /\ tempExists = FALSE
    /\ temp = EmptyDir
    /\ pc = "idle"
    /\ i = 1
    /\ attachment_results = <<>>
    /\ files = <<>>
    /\ result = "none"
    /\ errName = None
    /\ run = 1
    /\ pre = EmptyDir
    /\ staged = {}
    /\ checked = 0
    /\ moved = 0
    /\ prevResult = "none"
    /\ outputExisted = FALSE
    /\ srcName = SrcName
    /\ sameDir = FALSE
    /\ otherPc = "idle"
    /\ otherI = 1
    /\ otherResult = "none"
    /\ gapWrites = {}

\* no call yet
NoCall == [subdir |-> "none"]

\* the places of a mailbox a message file can be at
Slots == {"new", "cur"} \X MaildirNames

\* the files of one directory of a numbered set of places
DirOf(subdir, numbering) ==
    [n \in {q[2] : q \in {r \in DOMAIN numbering : r[1] = subdir}} |->
        numbering[<<subdir, n>>]]

\* one numbering 1..n of a set of n places (the messages are interchangeable)
Numbering(P) ==
    CHOOSE g \in [P -> 1..Cardinality(P)] : \A x, y \in P : g[x] = g[y] => x = y

\* the mailboxes: at most MaxMsgs message files, numbered 1..n, in new/ and cur/
Mailboxes ==
    { [new |-> DirOf("new", Numbering(P)), cur |-> DirOf("cur", Numbering(P))] :
        P \in {Q \in SUBSET Slots : Cardinality(Q) <= MaxMsgs} }

\* no command: the arguments before any command is given
NoArgs == [command |-> "none"]

\* the counts a process_* call starts from
ZeroCounts == [changed |-> 0, skipped |-> 0, errors |-> 0]

\* the commands' variables while no command runs
IdleCmd ==
    /\ other = EmptyDir
    /\ present = {"new", "cur"}
    /\ maildirExists = TRUE
    /\ args = NoArgs
    /\ cpc = "idle"
    /\ cmdFlag = "S"
    /\ index = 1
    /\ subdirIndex = 1
    /\ listing = {}
    /\ listed = FALSE
    /\ counts = ZeroCounts
    /\ totals = ZeroCounts
    /\ exitCode = -1
    /\ muCalls = 0
    /\ muOutcome = "none"
    /\ log = <<>>
    /\ startNew = EmptyDir
    /\ startCur = EmptyDir
    /\ startOther = EmptyDir
    /\ dryTotals = NoArgs

\* a call that has not returned
Pending == <<"Pending">>

\* the pure-function call's variables while no pure function is called
IdleFn ==
    /\ fnArgs = NoArgs
    /\ fnReturned = FALSE
    /\ fnResult = Pending

\* the mailbox before any call, the pipeline idle
InitFlag ==
    /\ \E b \in Mailboxes : new = b.new /\ cur = b.cur
    /\ call = NoCall
    /\ prevCall = NoCall
    /\ preNew = new
    /\ preCur = cur
    /\ IdleEml
    /\ IdleCmd
    /\ IdleFn

\* the directory of the mailbox
SubdirFiles(subdir) == IF subdir = "new" THEN new ELSE cur

\* rename_with_flag(<maildir_root>/<subdir>/<filename>, flag, dry_run) on an
\* existing file; os.rename replaces a file at new_path
RenameWithFlag(subdir, filename, flag, dry_run) ==
    LET current_flags == ParseMaildirFlags(filename)[2]
        new_flags == current_flags \o <<flag>>
        new_filename == BuildFlaggedFilename(filename, new_flags)
        target_dir == TargetDir(subdir, flag, new_flags)
        message == SubdirFiles(subdir)[filename]
        removedNew == IF subdir = "new" THEN RemoveFile(new, filename) ELSE new
        removedCur == IF subdir = "cur" THEN RemoveFile(cur, filename) ELSE cur
        this == [subdir |-> subdir, filename |-> filename, flag |-> flag,
                 dry_run |-> dry_run]
    IN  /\ filename \in DOMAIN SubdirFiles(subdir)
        /\ prevCall' = call
        /\ preNew' = new
        /\ preCur' = cur
        /\ IF AlreadySet(flag, current_flags)
           THEN /\ call' = this @@
                           [ret |-> FALSE, target_dir |-> subdir,
                            new_filename |-> filename]
                /\ UNCHANGED <<new, cur>>
           ELSE /\ call' = this @@
                           [ret |-> TRUE, target_dir |-> target_dir,
                            new_filename |-> new_filename]
                /\ IF dry_run
                   THEN UNCHANGED <<new, cur>>
                   ELSE /\ new' = IF target_dir = "new"
                                  THEN WriteFile(removedNew, new_filename, message)
                                  ELSE removedNew
                        /\ cur' = IF target_dir = "cur"
                                  THEN WriteFile(removedCur, new_filename, message)
                                  ELSE removedCur
        /\ UNCHANGED <<emlVars, cmdVars, fnVars>>

\* the mailbox's variables while the pipeline runs
IdleFlag ==
    /\ new = EmptyDir
    /\ cur = EmptyDir
    /\ call = NoCall
    /\ prevCall = NoCall
    /\ preNew = EmptyDir
    /\ preCur = EmptyDir

(***************************************************************************)
(* Specifications.                                                         *)
(***************************************************************************)
Init == InitEml /\ IdleFlag /\ IdleCmd /\ IdleFn

Next ==
    \/ Makedirs
    \/ Mkdtemp
    \/ CopyEml
    \/ RenameEml
    \/ SaveText
    \/ SaveAttachment
    \/ BuildFileList
    \/ CheckCollision
    \/ CheckDone
    \/ MoveFile
    \/ Return
    \/ Cleanup
    \/ Rerun

\* the pipeline in an environment whose filesystem calls do not fail
Spec == Init /\ [][Next]_vars

NextFault == Next \/ Fault \/ FaultBeforeTry

\* the pipeline in an environment whose filesystem calls may fail
SpecFault == Init /\ [][NextFault]_vars


\* rename_with_flag called on any file of the mailbox, with any flag
NextFlag ==
    \E subdir \in {"new", "cur"}, filename \in MaildirNames, flag \in Flags,
       dry_run \in BOOLEAN :
        RenameWithFlag(subdir, filename, flag, dry_run)

\* the flag-rename engine on one mailbox
SpecFlag == InitFlag /\ [][NextFlag]_vars

(***************************************************************************)
(* Properties of the extraction pipeline.                                  *)
(***************************************************************************)
\* the state of section 4.5 the run is in
Phase ==
    IF result \in {"collision", "error"} THEN "FAILED"
    ELSE IF result = "ok" THEN "DONE"
    ELSE IF pc = "move" THEN "COMMITTING"
    ELSE IF pc = "check" THEN "COLLISION_CHECK"
    ELSE "STAGING"

Rank(ph) ==
    CASE ph = "STAGING" -> 1
      [] ph = "COLLISION_CHECK" -> 2
      [] ph = "COMMITTING" -> 3
      [] ph = "DONE" -> 4
      [] ph = "FAILED" -> 5

\* the indexes of the FileRecords whose name the destination held when the
\* run began
Colliding == {k \in DOMAIN files : files[k].name \in DOMAIN pre}

\* the least element of a non-empty set of numbers
Least(S) == CHOOSE k \in S : \A j \in S : k <= j

\* C1: when the collision check is reached and some FileRecord name (eml,
\* txt or attach) is already in the destination, the run is still checking
\* or has failed with the collision error, which names such a file, and the
\* destination holds the files, with the contents, it held before the call.
C1_CollisionAbort ==
    (files # <<>> /\ Colliding # {}) =>
        /\ output = pre
        /\ pc = "check" \/ result = "collision"
        /\ (result = "collision" => errName \in DOMAIN pre)
        /\ (pc = "exit" => result = "collision")

\* a run has ended on the collision of an attach record only
C1_Witness ==
    /\ pc = "exit"
    /\ result = "collision"
    /\ Colliding # {}
    /\ \A k \in Colliding : files[k].type = "attach"
    /\ output = pre

\* C2: when a run has ended, either it succeeded and the destination holds
\* every staged file, or it failed and the destination holds exactly what it
\* held before the call.
C2_CommitOrAbort ==
    pc = "exit" =>
        \/ result = "ok" /\ staged \subseteq DOMAIN output
        \/ result # "ok" /\ output = pre

\* C3: when process_eml has ended, temp_dir and its files do not exist,
\* whether the run returned, aborted on a collision or raised.
C3_Cleanup == pc = "exit" => (~tempExists /\ temp = EmptyDir)

\* a run that raised during staging, after an attachment was written to
\* temp_dir, has ended
C3_Witness ==
    /\ pc = "exit"
    /\ result = "error"
    /\ files = <<>>
    /\ attachment_results # <<>>
    /\ ~tempExists

\* C4: within a run the states follow STAGING, COLLISION_CHECK, COMMITTING,
\* DONE one step at a time, never backwards (FAILED is reachable from the
\* first three), and a step that changes the destination is taken only
\* when every FileRecord has passed the existence check.
C4_Ordering ==
    [][ run' = run =>
          /\ Rank(Phase') >= Rank(Phase)
          /\ (Phase' # "FAILED" => Rank(Phase') <= Rank(Phase) + 1)
          /\ (Phase = "FAILED" => Phase' = "FAILED")
          /\ (output' # output =>
                /\ Phase = "COMMITTING"
                /\ files # <<>>
                /\ checked = Len(files)) ]_vars

\* a run with an attachment is committing and has moved a file
C4_Witness ==
    /\ pc = "move"
    /\ moved >= 1
    /\ Len(files) >= 3
    /\ checked = Len(files)

\* the parts that are attachments by section 4.4: not a multipart container,
\* a disposition header, a filename
AttachmentParts ==
    SelectSeq(msg.parts,
              LAMBDA q : ~q.multipart /\ q.disposition /\ q.filename # None
                         /\ q.filename # <<>>)

\* C5: a successful run returns the eml record, then the txt record, then
\* one attach record per qualifying part, in traversal order, each under
\* the name derived from the part's filename.
C5_RecordShape ==
    result = "ok" =>
        /\ Len(files) = Len(AttachmentParts) + 2
        /\ files[1].type = "eml" /\ files[1].name = EmailStem \o ExtEml
        /\ files[2].type = "txt" /\ files[2].name = EmailStem \o ExtTxt
        /\ \A k \in 1..Len(AttachmentParts) :
              /\ files[k + 2].type = "attach"
              /\ files[k + 2].name =
                    GenerateAttachmentFilename(msg.basename, AttachmentParts[k].filename)

\* a run on a message with two attachments has succeeded
C5_Witness ==
    /\ result = "ok"
    /\ Len(files) = 4
    /\ files[3].name # files[4].name

\* C6: a FileRecord whose file is in temp_dir has no path, and when the run
\* is DONE every record's path is <destination>/<name>, where its file is,
\* and its file is no longer in temp_dir.
C6_Lifecycle ==
    /\ \A k \in DOMAIN files :
          Exists(temp, files[k].name) => files[k].path = None
    /\ result = "ok" =>
          \A k \in DOMAIN files :
              /\ files[k].path = <<"output", files[k].name>>
              /\ Exists(output, files[k].name)
              /\ ~Exists(temp, files[k].name)

\* a run with an attachment is DONE and temp_dir has not yet been removed
C6_Witness ==
    /\ result = "ok"
    /\ pc = "finally"
    /\ tempExists
    /\ Len(files) >= 3

\* C7: a run that follows a successful run on the same message and
\* destination ends with the collision error, which names the first
\* FileRecord (eml, txt, attach order) whose name is in the destination, and
\* leaves the destination as it found it.
C7_RerunCollides ==
    (run >= 2 /\ prevResult = "ok" /\ pc = "exit") =>
        /\ result = "collision"
        /\ Colliding # {}
        /\ errName = files[Least(Colliding)].name
        /\ output = pre

\* the second run on a message with an attachment has ended, after a
\* successful first run
C7_Witness ==
    /\ run = 2
    /\ prevResult = "ok"
    /\ pc = "exit"
    /\ result = "collision"
    /\ Len(files) >= 3

(***************************************************************************)
(* Properties of the flag-rename engine.                                   *)
(***************************************************************************)
\* the messages a directory holds
Messages_in(dir) == {dir[n] : n \in DOMAIN dir}

\* the message file the last call was made on
CalledMessage ==
    IF call.subdir = "new" THEN preNew[call.filename] ELSE preCur[call.filename]

\* the flags text of the name the last call was made on
CalledFlags == ParseMaildirFlags(call.filename)[2]

\* name is <base>:2,<flags> with S among the flags
SeenNameOf(name, base) ==
    /\ Len(name) >= Len(base) + 3
    /\ SubSeq(name, 1, Len(base) + 3) = base \o <<":", "2", ",">>
    /\ \E k \in (Len(base) + 4)..Len(name) : name[k] = "S"

\* C8: after a real rename_with_flag(path, 'S') on a file of new/ whose
\* flags lack S, the call returned true, the message is in cur/ under its
\* unique part with a flags suffix that holds S, and no file is at the
\* original path.
C8_SeenRelocation ==
    (/\ call # NoCall
     /\ ~call.dry_run
     /\ call.flag = "S"
     /\ call.subdir = "new"
     /\ \A k \in DOMAIN CalledFlags : CalledFlags[k] # "S") =>
        /\ call.ret
        /\ call.filename \notin DOMAIN new
        /\ \E n \in DOMAIN cur :
              /\ cur[n] = CalledMessage
              /\ SeenNameOf(n, ParseMaildirFlags(call.filename)[1])

\* S was added to a file of new/ without the marker, and to one with it
C8_Witness ==
    /\ call # NoCall /\ prevCall # NoCall
    /\ ~call.dry_run /\ ~prevCall.dry_run
    /\ call.flag = "S" /\ prevCall.flag = "S"
    /\ call.subdir = "new" /\ prevCall.subdir = "new"
    /\ call.ret /\ prevCall.ret
    /\ call.filename = <<"a">>
    /\ prevCall.filename = <<"a", ":", "2", ",", "F">>
    /\ Cardinality(DOMAIN cur) = 2

\* C9 as stated: a real call that takes a file from new/ to cur/ adds the
\* flag S; adding another flag to a file of new/ leaves it in new/.
C9_OnlySeenRelocates ==
    (/\ call # NoCall
     /\ call.ret
     /\ ~call.dry_run
     /\ call.subdir = "new"
     /\ call.flag # "S") =>
        /\ CalledMessage \in Messages_in(new)
        /\ CalledMessage \notin Messages_in(cur)

\* C9, amended: a real call on a file of new/ takes it to cur/ exactly when
\* the flags after the change hold S (S is the flag added, or the name
\* already carried S); otherwise the file is renamed inside new/.
C9_RelocatesIffSeenInResult ==
    (/\ call # NoCall
     /\ call.ret
     /\ ~call.dry_run
     /\ call.subdir = "new") =>
        /\ CalledMessage \in Messages_in(cur)
              <=> (call.flag = "S" \/ \E k \in DOMAIN CalledFlags : CalledFlags[k] = "S")
        /\ CalledMessage \notin Messages_in(cur) => CalledMessage \in Messages_in(new)

\* F was added to a file of new/ that carries no S, and the file is in new/
C9_Witness ==
    /\ call # NoCall
    /\ call.ret
    /\ ~call.dry_run
    /\ call.subdir = "new"
    /\ call.flag = "F"
    /\ \A k \in DOMAIN CalledFlags : CalledFlags[k] # "S"
    /\ CalledMessage \in Messages_in(new)

\* the last call was made, with the same flag, on the file the call before
\* it produced
Reapplied ==
    /\ call # NoCall
    /\ prevCall # NoCall
    /\ prevCall.ret
    /\ ~prevCall.dry_run
    /\ call.subdir = prevCall.target_dir
    /\ call.filename = prevCall.new_filename
    /\ call.flag = prevCall.flag

\* C10: a call on a file whose flags hold the flag returns false and leaves
\* the mailbox as it was; so does a call that applies a flag again to the
\* file a successful application of that flag produced.
C10_Idempotent ==
    call # NoCall =>
        /\ (\E k \in DOMAIN CalledFlags : CalledFlags[k] = call.flag) =>
              (~call.ret /\ new = preNew /\ cur = preCur)
        /\ Reapplied =>
              /\ ~call.ret
              /\ new = preNew /\ cur = preCur
              /\ call.target_dir = call.subdir
              /\ call.new_filename = call.filename

\* S was applied again to a file that the application of S took to cur/
C10_Witness ==
    /\ Reapplied
    /\ prevCall.subdir = "new"
    /\ prevCall.flag = "S"
    /\ call.subdir = "cur"
    /\ ~call.ret

(***************************************************************************)
(* build_flagged_filename called on any filename and any flags text.       *)
(***************************************************************************)
\* the longest flags text handed to build_flagged_filename
MaxFlags == 3

\* the flag characters: Flagged, Replied, Seen
FlagChars == {"F", "R", "S"}

\* the flags texts: any characters in any order, repeated or not
FlagTexts == UNION {[1..n -> FlagChars] : n \in 0..MaxFlags}

\* the filenames: those of the mailbox, and one whose suffix repeats a flag
BuildNames == MaildirNames \cup {Unique \o Marker \o <<"F", "F">>}

\* the mailbox and the pipeline idle
IdleOthers == IdleEml /\ IdleFlag /\ IdleCmd

InitBuild ==
    /\ fnArgs \in [fn : {"build_flagged_filename"}, filename : BuildNames,
                    new_flags : FlagTexts]
    /\ fnReturned = FALSE
    /\ fnResult = Pending
    /\ IdleOthers

\* the call returns
CallBuildFlaggedFilename ==
    /\ fnArgs.fn = "build_flagged_filename"
    /\ ~fnReturned
    /\ fnReturned' = TRUE
    /\ fnResult' = BuildFlaggedFilename(fnArgs.filename, fnArgs.new_flags)
    /\ UNCHANGED <<fnArgs, emlVars, mdVars, cmdVars>>

SpecBuild == InitBuild /\ [][CallBuildFlaggedFilename]_vars

\* the text is strictly ascending by code point: sorted, no character twice
StrictlyAscending(t) == \A x \in 1..(Len(t) - 1) : Ord(t[x]) < Ord(t[x + 1])

\* C11: whatever the filename and the flags text, build_flagged_filename
\* returns <unique part>:2,<flags>: the unique part is what precedes the
\* filename's last marker (the whole filename when it has none), and the flags
\* are the characters of the flags text, each once, in strictly ascending
\* order; so is the name rename_with_flag builds from current_flags + flag,
\* even when the old suffix was unsorted or repeated a flag
C11_CanonicalFlags ==
    (fnReturned /\ fnArgs.fn = "build_flagged_filename") =>
        \E x \in 0..Len(fnArgs.filename) :
            LET suffix == Slice(fnResult, x + 4, Len(fnResult))
            IN  /\ Len(fnResult) >= x + 3
                /\ Slice(fnResult, 1, x) = Slice(fnArgs.filename, 1, x)
                /\ Slice(fnResult, x + 1, x + 3) = Marker
                /\ \/ x = Len(fnArgs.filename)
                   \/ /\ Slice(fnArgs.filename, x + 1, x + 3) = Marker
                      /\ FindLast(fnArgs.filename, Marker, Len(fnArgs.filename)) = x + 1
                /\ StrictlyAscending(suffix)
                /\ Chars(suffix) = Chars(fnArgs.new_flags)

\* build_flagged_filename has returned for a filename whose suffix is unsorted
\* and a flags text that repeats a flag out of order
C11_Witness ==
    /\ fnReturned
    /\ fnArgs.fn = "build_flagged_filename"
    /\ fnArgs.filename = Unique \o Marker \o <<"S", "F">>
    /\ fnArgs.new_flags = <<"S", "F", "S">>
    /\ fnResult = Unique \o Marker \o <<"F", "S">>

(***************************************************************************)
(* The commands of maildir-flag-manager.py on one mailbox: cmd_mark_read   *)
(* and cmd_star, process_maildir, process_specific_files, reindex_mu.      *)
(* A path is a pair <<dir, name>>: the file `name` of the mailbox's new/   *)
(* or cur/, or of a sibling directory that is neither ("other").           *)
(***************************************************************************)
\* the directories of the filesystem the commands look at
Fsys == [new |-> new, cur |-> cur, other |-> other]

\* os.path.isfile(<dir>/<name>); a missing directory holds no file
IsFile(fsys, dir, name) == name \in DOMAIN fsys[dir]

\* a seeded fault of InMaildir: the parent directory is not looked at
InMaildirAnyParent(parent_dir) == TRUE

\* process_specific_files' test of the parent directory (lines 165-166)
InMaildir(parent_dir) == parent_dir \in {"cur", "new"}

\* rename_with_flag(<subdir>/<filename>, flag, dry_run) on an existing file,
\* as a function of the filesystem: what process_* counts, and the filesystem
\* after; os.rename raises when the target directory is missing and replaces a
\* file at new_path
RenameOutcome(fsys, pres, subdir, filename, flag, dry_run) ==
    LET current_flags == ParseMaildirFlags(filename)[2]
        new_flags == current_flags \o <<flag>>
        new_filename == BuildFlaggedFilename(filename, new_flags)
        target_dir == TargetDir(subdir, flag, new_flags)
        message == fsys[subdir][filename]
        removed == [fsys EXCEPT ![subdir] = RemoveFile(@, filename)]
    IN  IF AlreadySet(flag, current_flags)
        THEN [outcome |-> "skipped", fsys |-> fsys]
        ELSE IF dry_run
        THEN [outcome |-> "changed", fsys |-> fsys]
        ELSE IF target_dir \notin pres \cup {"other"}
        THEN [outcome |-> "errors", fsys |-> fsys]
        ELSE [outcome |-> "changed",
              fsys |-> [removed EXCEPT ![target_dir] =
                            WriteFile(@, new_filename, message)]]

\* counts with one more outcome
Count(c, outcome) == [c EXCEPT ![outcome] = @ + 1]

\* total_changed += c; total_skipped += s; total_errors += e
AddCounts(t, c) ==
    [changed |-> t.changed + c.changed, skipped |-> t.skipped + c.skipped,
     errors |-> t.errors + c.errors]

\* cmd_star's second call: c2, _, e2 (lines 274-276)
AddChangedAndErrors(t, c) ==
    [changed |-> t.changed + c.changed, skipped |-> t.skipped,
     errors |-> t.errors + c.errors]

\* the keys of MAILDIR_ACCOUNTS, in order
MaildirAccounts == <<"gmail", "cmail">>

\* os.path.isdir(maildir_path): the model's mailbox is the first account's;
\* the second account's directory is not on the filesystem
AccountExists(account) == account = "gmail" /\ maildirExists

\* process_maildir's `for subdir in ('new', 'cur')`
Subdirs == <<"new", "cur">>

\* a seeded fault of ReindexWanted: a dry run reindexes too
ReindexWantedInDryRun(a, t) == a.reindex /\ t.changed > 0

\* the condition of lines 244 and 281
ReindexWanted(a, t) == a.reindex /\ ~a.dry_run /\ t.changed > 0

\* a seeded fault of ExitCode: the command always reports success
ExitCodeZero(total_errors) == 0

\* return 0 if total_errors == 0 else 1
ExitCode(total_errors) == IF total_errors = 0 THEN 0 ELSE 1

\* the file names of the commands' mailbox
CmdNames == {Unique, Unique \o Marker \o <<"F">>, Unique \o Marker \o <<"S">>}

\* the mailboxes of the commands: at most MaxMsgs message files, numbered 1..n
CmdMailboxes ==
    { [new |-> DirOf("new", Numbering(P)), cur |-> DirOf("cur", Numbering(P))] :
        P \in {Q \in SUBSET ({"new", "cur"} \X CmdNames) : Cardinality(Q) <= MaxMsgs} }

\* the paths given on the command line: they name files of new/ and cur/
\* that exist or not, and a file of the sibling directory
Paths == ({"new", "cur"} \X CmdNames) \cup {<<"other", Unique>>}

PathLists == {<<>>} \cup {<<p>> : p \in Paths} \cup {<<p, q>> : p, q \in Paths}

\* what argparse hands to cmd_mark_read and cmd_star
ArgsSet ==
    [command : {"mark-read"}, paths : PathLists, dry_run : BOOLEAN,
     reindex : BOOLEAN, mark_read : {FALSE}]
    \cup
    [command : {"star"}, paths : PathLists, dry_run : BOOLEAN,
     reindex : BOOLEAN, mark_read : BOOLEAN]

\* a command is about to run: any mailbox, whose directory, new/ and cur/
\* exist or not, and any arguments
InitCmd ==
    /\ \E b \in CmdMailboxes :
        /\ new = b.new
        /\ cur = b.cur
    /\ maildirExists \in BOOLEAN
    /\ present \in SUBSET {"new", "cur"}
    /\ ~maildirExists => present = {}
    /\ "new" \notin present => new = EmptyDir
    /\ "cur" \notin present => cur = EmptyDir
    /\ other = [n \in {Unique} |-> 0]
    /\ args \in ArgsSet
    /\ cpc = "start"
    /\ cmdFlag = "S"
    /\ index = 1
    /\ subdirIndex = 1
    /\ listing = {}
    /\ listed = FALSE
    /\ counts = ZeroCounts
    /\ totals = ZeroCounts
    /\ exitCode = -1
    /\ muCalls = 0
    /\ muOutcome = "none"
    /\ log = <<>>
    /\ startNew = new
    /\ startCur = cur
    /\ startOther = other
    /\ dryTotals = NoArgs
    /\ call = NoCall
    /\ prevCall = NoCall
    /\ preNew = EmptyDir
    /\ preCur = EmptyDir
    /\ IdleEml
    /\ IdleFn

\* what no command changes
cmdConst == <<emlVars, fnVars, call, prevCall, preNew, preCur, present,
              maildirExists, args, startNew, startCur, startOther, dryTotals>>

\* cmd_mark_read lines 214-230, cmd_star lines 252-266: the flag, the totals,
\* and which process_* function is called first
CmdStart ==
    /\ cpc = "start"
    /\ cmdFlag' = IF args.command = "mark-read" THEN "S" ELSE "F"
    /\ index' = 1
    /\ counts' = ZeroCounts
    /\ totals' = ZeroCounts
    /\ IF args.paths # <<>>
       THEN cpc' = "specific" /\ UNCHANGED exitCode
       ELSE IF args.command = "mark-read"
       THEN cpc' = "accounts" /\ UNCHANGED exitCode
       ELSE cpc' = "done" /\ exitCode' = 1
    /\ UNCHANGED <<new, cur, other, subdirIndex, listing, listed, muCalls,
                   muOutcome, log, cmdConst>>

\* one turn of process_specific_files' loop (lines 157-179)
SpecificFile ==
    /\ cpc = "specific"
    /\ index <= Len(args.paths)
    /\ LET path == args.paths[index]
           dir == path[1]
           name == path[2]
           found == IsFile(Fsys, dir, name)
           r == IF ~found \/ ~InMaildir(dir)
                THEN [outcome |-> "errors", fsys |-> Fsys]
                ELSE RenameOutcome(Fsys, present, dir, name, cmdFlag, args.dry_run)
       IN  /\ counts' = Count(counts, r.outcome)
           /\ new' = r.fsys.new
           /\ cur' = r.fsys.cur
           /\ other' = r.fsys.other
           /\ log' = Append(log, [op |-> "specific", flag |-> cmdFlag, dir |-> dir,
                                  name |-> name,
                                  message |-> IF found THEN Fsys[dir][name] ELSE -1,
                                  outcome |-> r.outcome])
    /\ index' = index + 1
    /\ UNCHANGED <<cpc, cmdFlag, subdirIndex, listing, listed, totals, exitCode,
                   muCalls, muOutcome, cmdConst>>

\* process_specific_files returns; cmd_mark_read lines 226-228, cmd_star
\* lines 267-276: the counts are added, and star --mark-read calls it again
\* with 'S' and the same paths
SpecificReturn ==
    /\ cpc = "specific"
    /\ index > Len(args.paths)
    /\ IF args.command = "star" /\ cmdFlag = "S"
       THEN totals' = AddChangedAndErrors(totals, counts)
       ELSE totals' = AddCounts(totals, counts)
    /\ IF args.command = "star" /\ cmdFlag = "F" /\ args.mark_read
       THEN /\ cmdFlag' = "S"
            /\ index' = 1
            /\ counts' = ZeroCounts
            /\ UNCHANGED cpc
       ELSE /\ cpc' = "finish"
            /\ UNCHANGED <<cmdFlag, index, counts>>
    /\ UNCHANGED <<new, cur, other, subdirIndex, listing, listed, exitCode,
                   muCalls, muOutcome, log, cmdConst>>

\* cmd_mark_read's loop over MAILDIR_ACCOUNTS calls process_maildir (line 232);
\* a mailbox directory that does not exist returns 0, 0, 0 (lines 118-120)
ProcessMaildir ==
    /\ cpc = "accounts"
    /\ index <= Len(MaildirAccounts)
    /\ counts' = ZeroCounts
    /\ IF AccountExists(MaildirAccounts[index])
       THEN /\ cpc' = "scan"
            /\ subdirIndex' = 1
            /\ listed' = FALSE
            /\ UNCHANGED index
       ELSE /\ index' = index + 1
            /\ UNCHANGED <<cpc, subdirIndex, listed>>
    /\ UNCHANGED <<new, cur, other, cmdFlag, listing, totals, exitCode, muCalls,
                   muOutcome, log, cmdConst>>

\* the loop over MAILDIR_ACCOUNTS ends
AccountsDone ==
    /\ cpc = "accounts"
    /\ index > Len(MaildirAccounts)
    /\ cpc' = "finish"
    /\ UNCHANGED <<new, cur, other, cmdFlag, index, subdirIndex, listing, listed,
                   counts, totals, exitCode, muCalls, muOutcome, log, cmdConst>>

\* process_maildir lines 126-131: a missing subdirectory is passed over, the
\* names of an existing one are listed
ScanListdir ==
    /\ cpc = "scan"
    /\ subdirIndex <= Len(Subdirs)
    /\ ~listed
    /\ IF Subdirs[subdirIndex] \notin present
       THEN /\ subdirIndex' = subdirIndex + 1
            /\ UNCHANGED <<listing, listed>>
       ELSE /\ listing' = DOMAIN Fsys[Subdirs[subdirIndex]]
            /\ listed' = TRUE
            /\ UNCHANGED subdirIndex
    /\ UNCHANGED <<new, cur, other, cpc, cmdFlag, index, counts, totals,
                   exitCode, muCalls, muOutcome, log, cmdConst>>

\* one turn of process_maildir's loop over os.listdir (lines 131-143), which
\* lists in any order; a name that is no longer a file is passed over
ScanFile ==
    /\ cpc = "scan"
    /\ listed
    /\ \E filename \in listing :
        LET subdir == Subdirs[subdirIndex]
            found == IsFile(Fsys, subdir, filename)
            r == RenameOutcome(Fsys, present, subdir, filename, cmdFlag, args.dry_run)
        IN  /\ listing' = listing \ {filename}
            /\ IF found
               THEN /\ counts' = Count(counts, r.outcome)
                    /\ new' = r.fsys.new
                    /\ cur' = r.fsys.cur
                    /\ other' = r.fsys.other
                    /\ log' = Append(log, [op |-> "scan", flag |-> cmdFlag,
                                           dir |-> subdir, name |-> filename,
                                           message |-> Fsys[subdir][filename],
                                           outcome |-> r.outcome])
               ELSE UNCHANGED <<counts, new, cur, other, log>>
    /\ UNCHANGED <<cpc, cmdFlag, index, subdirIndex, listed, totals, exitCode,
                   muCalls, muOutcome, cmdConst>>

\* the loop over os.listdir ends: the next subdirectory
ScanSubdirDone ==
    /\ cpc = "scan"
    /\ listed
    /\ listing = {}
    /\ subdirIndex' = subdirIndex + 1
    /\ listed' = FALSE
    /\ UNCHANGED <<new, cur, other, cpc, cmdFlag, index, listing, counts, totals,
                   exitCode, muCalls, muOutcome, log, cmdConst>>

\* process_maildir returns (line 145); cmd_mark_read adds the counts (lines 233-235)
ScanReturn ==
    /\ cpc = "scan"
    /\ subdirIndex > Len(Subdirs)
    /\ totals' = AddCounts(totals, counts)
    /\ index' = index + 1
    /\ cpc' = "accounts"
    /\ UNCHANGED <<new, cur, other, cmdFlag, subdirIndex, listing, listed, counts,
                   exitCode, muCalls, muOutcome, log, cmdConst>>

\* lines 244-247 and 281-284 when reindex_mu is not called: the command returns
ReturnCmd ==
    /\ cpc = "finish"
    /\ ~ReindexWanted(args, totals)
    /\ exitCode' = ExitCode(totals.errors)
    /\ cpc' = "done"
    /\ UNCHANGED <<new, cur, other, cmdFlag, index, subdirIndex, listing, listed,
                   counts, totals, muCalls, muOutcome, log, cmdConst>>

\* what reindex_mu meets: no mu in PATH, mu index succeeding, failing, timing out
MuOutcomes == {"not found", "updated", "failed", "timed out"}

\* lines 244-247 and 281-284 when reindex_mu is called: whatever it meets, its
\* return value is dropped and the command returns
ReindexMu ==
    /\ cpc = "finish"
    /\ ReindexWanted(args, totals)
    /\ muCalls' = muCalls + 1
    /\ muOutcome' \in MuOutcomes
    /\ exitCode' = ExitCode(totals.errors)
    /\ cpc' = "done"
    /\ UNCHANGED <<new, cur, other, cmdFlag, index, subdirIndex, listing, listed,
                   counts, totals, log, cmdConst>>

\* the command that was run with --dry-run is run again without it
RunReal ==
    /\ cpc = "done"
    /\ args.dry_run
    /\ dryTotals = NoArgs
    /\ args' = [args EXCEPT !.dry_run = FALSE]
    /\ dryTotals' = totals
    /\ cpc' = "start"
    /\ index' = 1
    /\ subdirIndex' = 1
    /\ listing' = {}
    /\ listed' = FALSE
    /\ counts' = ZeroCounts
    /\ totals' = ZeroCounts
    /\ exitCode' = -1
    /\ muCalls' = 0
    /\ muOutcome' = "none"
    /\ log' = <<>>
    /\ startNew' = new
    /\ startCur' = cur
    /\ startOther' = other
    /\ UNCHANGED <<new, cur, other, cmdFlag, emlVars, fnVars, call, prevCall,
                   preNew, preCur, present, maildirExists>>

NextCmd ==
    \/ CmdStart
    \/ SpecificFile
    \/ SpecificReturn
    \/ ProcessMaildir
    \/ AccountsDone
    \/ ScanListdir
    \/ ScanFile
    \/ ScanSubdirDone
    \/ ScanReturn
    \/ ReturnCmd
    \/ ReindexMu
    \/ RunReal

\* one command, and the same command again when the first was a dry run
SpecCmd == InitCmd /\ [][NextCmd]_vars

(***************************************************************************)
(* Properties of the commands.                                             *)
(***************************************************************************)
\* the entries of the log
LogEntries == {log[x] : x \in DOMAIN log}

\* C12: no step of a command (a turn of process_maildir's or of
\* process_specific_files' loop, each a call of rename_with_flag, with S or F,
\* in any order of the listing and of the paths) takes a message file that was
\* in cur/ into new/, or out of the mailbox into the sibling directory
C12_NoDemotion ==
    [][\A m \in Messages_in(cur) :
          m \notin Messages_in(new') /\ m \notin Messages_in(other')]_vars

\* a real run has renamed a file of cur/, and the message is in cur/ under
\* another name
C12_Witness ==
    \E e \in LogEntries :
        /\ e.dir = "cur"
        /\ e.outcome = "changed"
        /\ ~args.dry_run
        /\ e.message \in Messages_in(cur)
        /\ e.name \notin DOMAIN cur

\* the messages of the mailbox when the command began
StartMessages == Messages_in(startNew) \cup Messages_in(startCur)

\* how many entries of the log are about the message
OutcomesOf(m) == Cardinality({x \in DOMAIN log : log[x].message = m})

\* how many entries of the log have the outcome
Logged(outcome) == Cardinality({x \in DOMAIN log : log[x].outcome = outcome})

\* a mark-read scan of the mailbox has returned
ScanDone ==
    /\ cpc = "done"
    /\ args.command = "mark-read"
    /\ args.paths = <<>>

\* C13: when process_maildir has scanned the mailbox, every file that was in
\* new/ or cur/ at the start has contributed exactly one outcome, and the
\* returned counts are those outcomes: changed + already-set + errors is the
\* number of files the scan started with
C13_ScanAccounting ==
    ScanDone =>
        /\ \A m \in StartMessages : OutcomesOf(m) = 1
        /\ totals.changed + totals.skipped + totals.errors = Cardinality(StartMessages)
        /\ totals.changed = Logged("changed")
        /\ totals.skipped = Logged("skipped")
        /\ totals.errors = Logged("errors")

\* the command makes one process_* call per mailbox: one flag, one driving mode
OneFlag == args.command = "mark-read" \/ ~args.mark_read

\* the dry run of the command has returned
DryDone == cpc = "done" /\ args.dry_run

\* the real run that repeats a dry run, from the state the dry run began in,
\* has returned
RealAfterDryDone == cpc = "done" /\ ~args.dry_run /\ dryTotals # NoArgs

\* the dry run changed no file's name or location
DryRunChangesNothing ==
    DryDone => (new = startNew /\ cur = startCur /\ other = startOther)

\* C14: a dry run leaves every file where it was, under its name, and the real
\* run of the same command (same flag, scan or same path list) from the same
\* mailbox state reports the changed and already-set counts the dry run
\* reported
C14_DryRunEquivalence ==
    /\ DryRunChangesNothing
    /\ (RealAfterDryDone /\ OneFlag) =>
            /\ totals.changed = dryTotals.changed
            /\ totals.skipped = dryTotals.skipped

\* the path process_specific_files is about to look at is not an existing
\* regular file, or its parent directory is not named new or cur
Rejectable ==
    /\ cpc = "specific"
    /\ index <= Len(args.paths)
    /\ \/ ~IsFile(Fsys, args.paths[index][1], args.paths[index][2])
       \/ args.paths[index][1] \notin {"new", "cur"}

\* C15: the turn of process_specific_files' loop on such a path counts one
\* error and nothing else, renames nothing, and goes on to the next path of
\* the list
C15_ExplicitListRejection ==
    [][Rejectable =>
          /\ counts' = [counts EXCEPT !.errors = @ + 1]
          /\ new' = new /\ cur' = cur /\ other' = other
          /\ cpc' = "specific"
          /\ index' = index + 1]_vars

\* a real run rejected its first path, a file outside new/ and cur/ that is
\* still where it was, and has renamed the file of its second path
C15_Witness ==
    /\ ~args.dry_run
    /\ Len(log) = Len(args.paths)
    /\ Len(log) > 1
    /\ log[1].dir = "other"
    /\ log[1].outcome = "errors"
    /\ other = startOther
    /\ log[Len(log)].outcome = "changed"
    /\ log[Len(log)].name \notin DOMAIN Fsys[log[Len(log)].dir]

\* name carries the flag: it is among the characters after the last marker
Carries(name, f) == f \in Chars(ParseMaildirFlags(name)[2])

\* a real star --mark-read, given the one path of a file that was in new/ or
\* cur/ with neither F nor S, has returned
StarMarkReadDone ==
    /\ cpc = "done"
    /\ args.command = "star"
    /\ args.mark_read
    /\ ~args.dry_run
    /\ Len(args.paths) = 1
    /\ args.paths[1][1] \in {"new", "cur"}
    /\ IsFile([new |-> startNew, cur |-> startCur, other |-> startOther],
              args.paths[1][1], args.paths[1][2])
    /\ ~Carries(args.paths[1][2], "F")
    /\ ~Carries(args.paths[1][2], "S")

\* the message the one path named when the command began
StarredMessage ==
    (IF args.paths[1][1] = "new" THEN startNew ELSE startCur)[args.paths[1][2]]

\* C16: such a command ends with the message in cur/ under a name that
\* carries F and S, no per-file error counted, and exit code 0
C16_StarAndMarkRead ==
    StarMarkReadDone =>
        /\ \E n \in DOMAIN cur :
              cur[n] = StarredMessage /\ Carries(n, "F") /\ Carries(n, "S")
        /\ totals.errors = 0
        /\ Logged("errors") = 0
        /\ exitCode = 0

\* a command that was given a mailbox scan or at least one path has returned
CommandDone ==
    /\ cpc = "done"
    /\ (args.command = "mark-read" \/ args.paths # <<>>)

\* C17: cmd_mark_read, and cmd_star given at least one path, return non-zero
\* exactly when a per-file error (file not found, parent not new or cur,
\* exception of the rename) was met during the run; a mailbox directory that
\* does not exist is passed over without an error
C17_ExitCode ==
    /\ CommandDone => (exitCode # 0 <=> Logged("errors") >= 1)
    /\ (ScanDone /\ ~maildirExists) => (exitCode = 0 /\ log = <<>>)

\* a real scan has returned 1: the second mailbox directory does not exist,
\* which is no error, and in the first the rename of a file of new/ raised
\* because cur/ is missing
C17_Witness ==
    /\ ScanDone
    /\ ~args.dry_run
    /\ ~AccountExists(MaildirAccounts[Len(MaildirAccounts)])
    /\ "cur" \notin present
    /\ Logged("errors") = 1
    /\ exitCode = 1

\* C18: reindex_mu has been called, once, exactly when the command returns
\* with --reindex set, not a dry run, and at least one file changed; it is
\* called only when every flag operation of the run is over; and whatever it
\* met (no mu, success, failure, timeout) the exit code is the one the
\* per-file errors give
C18_ReindexTrigger ==
    /\ muCalls >= 1 => cpc = "done"
    /\ muCalls <= 1
    /\ CommandDone =>
          /\ muCalls = 1 <=> (args.reindex /\ ~args.dry_run /\ Logged("changed") >= 1)
          /\ exitCode = (IF Logged("errors") = 0 THEN 0 ELSE 1)
    /\ (cpc = "done" /\ ~CommandDone) => muCalls = 0

\* reindex_mu timed out after a run that changed a file and met an error: the
\* command has returned 1
C18_Witness ==
    /\ cpc = "done"
    /\ muCalls = 1
    /\ muOutcome = "timed out"
    /\ Logged("changed") >= 1
    /\ Logged("errors") >= 1
    /\ exitCode = 1

(***************************************************************************)
(* parse_received_headers (eml-view-and-extract-attachments.py) called on  *)
(* any list of Received headers.                                           *)
(***************************************************************************)
\* the whitespace of the headers: space, and the tab of a folded line
WsChars == {" ", "\t"}

\* the characters of [\w.-]
HostChars == WordChars \cup {".", "-"}

RECURSIVE CollapseWs(_)
RECURSIVE CollapseRest(_)
\* ' '.join(header.split()): whitespace removed at both ends, every other run
\* of whitespace replaced by one space
CollapseWs(s) ==
    IF s = <<>> THEN <<>>
    ELSE IF Head(s) \in WsChars THEN CollapseWs(Tail(s))
    ELSE <<Head(s)>> \o CollapseRest(Tail(s))

\* the same, inside a word
CollapseRest(s) ==
    IF s = <<>> THEN <<>>
    ELSE IF Head(s) \in WsChars
    THEN LET c == CollapseWs(Tail(s))
         IN  IF c = <<>> THEN <<>> ELSE <<" ">> \o c
    ELSE <<Head(s)>> \o CollapseRest(Tail(s))

\* the first index from q on whose character is not in the set, Len + 1 if none
RECURSIVE SkipChars(_, _, _)
SkipChars(h, q, set) ==
    IF q > Len(h) THEN q
    ELSE IF h[q] \in set THEN SkipChars(h, q + 1, set)
    ELSE q

\* the group of keyword\s+([\w.-]+) matched at index x, None if it does not
\* match there
TokenAt(h, keyword, x) ==
    LET q == x + Len(keyword)
        r == SkipChars(h, q, WsChars)
        e == SkipChars(h, r, HostChars)
    IN  IF q - 1 <= Len(h) /\ SubSeq(h, x, q - 1) = keyword /\ r > q /\ e > r
        THEN Slice(h, r, e - 1)
        ELSE None

\* re.search(keyword\s+([\w.-]+), h).group(1): the leftmost match from x on,
\* None when there is no match
RECURSIVE SearchToken(_, _, _)
SearchToken(h, keyword, x) ==
    IF x > Len(h) THEN None
    ELSE IF TokenAt(h, keyword, x) # None THEN TokenAt(h, keyword, x)
    ELSE SearchToken(h, keyword, x + 1)

LitFrom == <<"f", "r", "o", "m">>
LitBy == <<"b", "y">>
LitUnknown == <<"u", "n", "k", "n", "o", "w", "n">>

\* from_match (line 37) and by_match (lines 38, 50) on a collapsed header
FromMatch(h) == SearchToken(h, LitFrom, 1)
ByMatch(h) == SearchToken(h, LitBy, 1)

\* the first index from x on of a semicolon that is not the last character,
\* 0 if none: where ;\s*(.+)$ matches leftmost
RECURSIVE FirstSemicolon(_, _)
FirstSemicolon(h, x) ==
    IF x >= Len(h) THEN 0
    ELSE IF h[x] = ";" THEN x
    ELSE FirstSemicolon(h, x + 1)

\* time_match.group(1).strip() if time_match else None (lines 34-35, 48-49)
Timestamp(h) ==
    IF FirstSemicolon(h, 1) = 0 THEN None
    ELSE StripWs(Slice(h, FirstSemicolon(h, 1) + 1, Len(h)))

\* the four fields before the loop (lines 26-29)
Unset ==
    [sent_time |-> None, sent_server |-> None, received_time |-> None,
     received_server |-> None]

\* a seeded fault of LoopStep: every header with both tokens overrides
LoopStepLastWins(t, received_header) ==
    LET header == CollapseWs(received_header)
    IN  IF FromMatch(header) # None /\ ByMatch(header) # None
        THEN [sent_time |-> Timestamp(header), sent_server |-> FromMatch(header),
              received_time |-> Timestamp(header), received_server |-> ByMatch(header)]
        ELSE t

\* one turn of the loop over the headers (lines 31-44)
LoopStep(t, received_header) ==
    LET header == CollapseWs(received_header)
    IN  IF FromMatch(header) # None /\ ByMatch(header) # None
           /\ t.received_server = None
        THEN [sent_time |-> Timestamp(header), sent_server |-> FromMatch(header),
              received_time |-> Timestamp(header), received_server |-> ByMatch(header)]
        ELSE t

\* the loop over the headers from index x on
RECURSIVE Loop(_, _, _)
Loop(t, received_headers, x) ==
    IF x > Len(received_headers) THEN t
    ELSE Loop(LoopStep(t, received_headers[x]), received_headers, x + 1)

\* a seeded fault of Fallback: the last header is looked at
FallbackToLast(t, received_headers) ==
    IF t.received_server = None /\ received_headers # <<>>
    THEN LET header == CollapseWs(received_headers[Len(received_headers)])
         IN  [t EXCEPT !.received_time = Timestamp(header),
                       !.received_server = IF ByMatch(header) # None
                                           THEN ByMatch(header) ELSE LitUnknown]
    ELSE t

\* the fallback to the first header (lines 46-51)
Fallback(t, received_headers) ==
    IF t.received_server = None /\ received_headers # <<>>
    THEN LET header == CollapseWs(received_headers[1])
         IN  [t EXCEPT !.received_time = Timestamp(header),
                       !.received_server = IF ByMatch(header) # None
                                           THEN ByMatch(header) ELSE LitUnknown]
    ELSE t

\* parse_received_headers(msg), msg.get_all('Received', []) being the list
ParseReceivedHeaders(received_headers) ==
    Fallback(Loop(Unset, received_headers, 1), received_headers)

\* the longest list of Received headers
MaxHeaders == 2

\* the headers: both tokens and a timestamp;
\* both tokens, other hosts and timestamp;
\* a by token only;
\* a from token only;
\* a by token and no timestamp;
\* neither token;
\* folded, both tokens in the other order, two semicolons;
\* both tokens and no timestamp
ReceivedHeaders ==
    { <<"f", "r", "o", "m", " ", "a", " ", "b", "y", " ", "b", ";", " ", "t">>,
      <<"f", "r", "o", "m", " ", "c", " ", "b", "y", " ", "d", ";", " ", "u">>,
      <<"b", "y", " ", "b", ";", " ", "t">>,
      <<"f", "r", "o", "m", " ", "a", ";", " ", "u">>,
      <<"b", "y", " ", "d">>,
      <<"(", "x", ")", ";", " ", "u">>,
      <<"b", "y", " ", "d", ".", "c", "\t", " ", "f", "r", "o", "m", "\t", " ", "a", "-", "b", ";", "t", ";", " ", "u">>,
      <<"f", "r", "o", "m", " ", "c", " ", "b", "y", " ", "b">> }

HeaderLists == UNION {[1..n -> ReceivedHeaders] : n \in 0..MaxHeaders}

InitParse ==
    /\ fnArgs \in [fn : {"parse_received_headers"}, received_headers : HeaderLists]
    /\ fnReturned = FALSE
    /\ fnResult = Pending
    /\ IdleOthers

\* the call returns
CallParseReceivedHeaders ==
    /\ fnArgs.fn = "parse_received_headers"
    /\ ~fnReturned
    /\ fnReturned' = TRUE
    /\ fnResult' = ParseReceivedHeaders(fnArgs.received_headers)
    /\ UNCHANGED <<fnArgs, emlVars, mdVars, cmdVars>>

SpecParse == InitParse /\ [][CallParseReceivedHeaders]_vars

(***************************************************************************)
(* Properties of parse_received_headers.                                   *)
(***************************************************************************)
\* the header contains a from token and a by token
HasBoth(received_header) ==
    /\ FromMatch(CollapseWs(received_header)) # None
    /\ ByMatch(CollapseWs(received_header)) # None

\* the index of the first header of the list with both tokens, 0 if none
FirstBoth(received_headers) ==
    IF \E x \in DOMAIN received_headers : HasBoth(received_headers[x])
    THEN CHOOSE x \in DOMAIN received_headers :
            /\ HasBoth(received_headers[x])
            /\ \A y \in 1..(x - 1) : ~HasBoth(received_headers[y])
    ELSE 0

\* parse_received_headers has returned
ParseReturned == fnReturned /\ fnArgs.fn = "parse_received_headers"

\* C19: when some header has both a from token and a by token, the four
\* fields come from the first such header of the list: received_server is its
\* by host, sent_server its from host, received_time and sent_time its
\* timestamp (unset when it has none); no later header changes them
C19_AuthoritativeHop ==
    (ParseReturned /\ FirstBoth(fnArgs.received_headers) # 0) =>
        LET header == CollapseWs(fnArgs.received_headers[FirstBoth(fnArgs.received_headers)])
        IN  /\ fnResult.received_server = ByMatch(header)
            /\ fnResult.sent_server = FromMatch(header)
            /\ fnResult.received_time = Timestamp(header)
            /\ fnResult.sent_time = Timestamp(header)

\* parse_received_headers has returned the hosts and the timestamp of the
\* first of two headers that both have a from token and a by token
C19_Witness ==
    /\ ParseReturned
    /\ fnArgs.received_headers = <<<<"f", "r", "o", "m", " ", "a", " ", "b", "y", " ", "b", ";", " ", "t">>, <<"f", "r", "o", "m", " ", "c", " ", "b", "y", " ", "d", ";", " ", "u">>>>
    /\ fnResult.sent_server = <<"a">>
    /\ fnResult.received_server = <<"b">>
    /\ fnResult.sent_time = <<"t">>

\* C20: when no header has both tokens, received_server is the by host of the
\* first header, or "unknown" when it has none, received_time is the first
\* header's timestamp (unset when it has none), and sent_server and sent_time
\* are unset; when the list is empty the four fields are unset
C20_TimingFallback ==
    (ParseReturned /\ FirstBoth(fnArgs.received_headers) = 0) =>
        IF fnArgs.received_headers = <<>>
        THEN /\ fnResult.received_server = None
             /\ fnResult.received_time = None
             /\ fnResult.sent_server = None
             /\ fnResult.sent_time = None
        ELSE LET header == CollapseWs(fnArgs.received_headers[1])
             IN  /\ fnResult.received_server =
                        (IF ByMatch(header) # None THEN ByMatch(header) ELSE LitUnknown)
                 /\ fnResult.received_time = Timestamp(header)
                 /\ fnResult.sent_server = None
                 /\ fnResult.sent_time = None

\* parse_received_headers has returned "unknown" and the first header's
\* timestamp for a list whose first header has no token and whose second has
\* a by token only
C20_Witness ==
    /\ ParseReturned
    /\ fnArgs.received_headers = <<<<"(", "x", ")", ";", " ", "u">>, <<"b", "y", " ", "d">>>>
    /\ fnResult.received_server = LitUnknown
    /\ fnResult.received_time = <<"u">>
    /\ fnResult.sent_server = None

\* the index of the header whose timestamp parse_received_headers returns as
\* received_time: the first with both tokens, the first of the list otherwise
TimedHeader(received_headers) ==
    IF FirstBoth(received_headers) # 0 THEN FirstBoth(received_headers) ELSE 1

\* the text following the last semicolon of the header, stripped; None when
\* the header has no semicolon
AfterLastSemicolon(h) ==
    IF RFind(h, ";") = 0 THEN None
    ELSE StripWs(Slice(h, RFind(h, ";") + 1, Len(h)))

\* C21: the timestamp parse_received_headers extracts from a header (after
\* whitespace collapsing) is the text following the header's last semicolon,
\* also when the header has several semicolons; a header without a semicolon
\* gives no timestamp
C21_TrailingTimestamp ==
    (ParseReturned /\ fnArgs.received_headers # <<>>) =>
        fnResult.received_time =
            AfterLastSemicolon(
                CollapseWs(fnArgs.received_headers[TimedHeader(fnArgs.received_headers)]))

(***************************************************************************)
(* extract_body (eml-view-and-extract-attachments.py) called on any part   *)
(* tree, given as the list of its parts in msg.walk() order.  A payload is *)
(* a sequence of bytes; "#" is a byte that is not valid UTF-8.             *)
(***************************************************************************)
\* payload.decode('utf-8', errors='ignore'): the invalid bytes are dropped
RECURSIVE Decode(_)
Decode(payload) ==
    IF payload = <<>> THEN <<>>
    ELSE IF Head(payload) = "#" THEN Decode(Tail(payload))
    ELSE <<Head(payload)>> \o Decode(Tail(payload))

\* the index of the first c of s from x on, 0 if none
RECURSIVE Find(_, _, _)
Find(s, c, x) ==
    IF x > Len(s) THEN 0
    ELSE IF s[x] = c THEN x
    ELSE Find(s, c, x + 1)

\* re.sub(r'<[^>]+>', '', html_text): every < with at least one character
\* before the next > is removed with all up to that >
RECURSIVE StripTags(_)
StripTags(html_text) ==
    IF html_text = <<>> THEN <<>>
    ELSE IF Head(html_text) = "<" /\ Find(html_text, ">", 2) > 2
    THEN StripTags(Slice(html_text, Find(html_text, ">", 2) + 1, Len(html_text)))
    ELSE <<Head(html_text)>> \o StripTags(Tail(html_text))

\* html2text.HTML2Text().handle(html_text): the text the library makes of the
\* markup, kept as the library's name applied to its argument
Html2Text(html_text) == <<"html2text">> \o html_text

\* the first-found text of a type after one more part (lines 70-78)
FirstFound(found, part, content_type) ==
    IF part.content_type = content_type /\ found = None /\ part.payload # None
    THEN Decode(part.payload)
    ELSE found

\* a seeded fault of WalkBody: a later part of a type replaces the earlier one
RECURSIVE WalkBodyLastWins(_, _, _)
WalkBodyLastWins(parts, plain_text, html_text) ==
    IF parts = <<>> THEN <<plain_text, html_text>>
    ELSE WalkBodyLastWins(Tail(parts),
            FirstFound(None, Head(parts), "text/plain"),
            FirstFound(None, Head(parts), "text/html"))

\* the loop over msg.walk() (lines 69-78): <<plain_text, html_text>> after it
RECURSIVE WalkBody(_, _, _)
WalkBody(parts, plain_text, html_text) ==
    IF parts = <<>> THEN <<plain_text, html_text>>
    ELSE WalkBody(Tail(parts),
            FirstFound(plain_text, Head(parts), "text/plain"),
            IF Head(parts).content_type = "text/plain" /\ plain_text = None
            THEN html_text
            ELSE FirstFound(html_text, Head(parts), "text/html"))

\* a seeded fault of SelectBody: the HTML part is preferred
SelectBodyPreferHtml(plain_text, html_text, html2text_installed) ==
    IF html_text # None
    THEN IF html2text_installed THEN Html2Text(html_text) ELSE StripTags(html_text)
    ELSE IF plain_text # None THEN plain_text
    ELSE <<>>

\* what extract_body returns after the loop (lines 80-93)
SelectBody(plain_text, html_text, html2text_installed) ==
    IF plain_text # None THEN plain_text
    ELSE IF html_text # None
    THEN IF html2text_installed THEN Html2Text(html_text) ELSE StripTags(html_text)
    ELSE <<>>

\* extract_body(msg), with html2text importable or not
ExtractBody(parts, html2text_installed) ==
    LET found == WalkBody(parts, None, None)
    IN  SelectBody(found[1], found[2], html2text_installed)

\* the parts: a multipart container (no payload), two text/plain parts (one
\* with an invalid byte), an empty text/plain part, two text/html parts, a
\* text/html part whose markup is not closed, a part of another type
BodyParts ==
    { [content_type |-> "multipart/mixed", payload |-> None],
      [content_type |-> "text/plain", payload |-> <<"p">>],
      [content_type |-> "text/plain", payload |-> <<"p", "#", "q">>],
      [content_type |-> "text/plain", payload |-> <<>>],
      [content_type |-> "text/html", payload |-> <<"<", "b", ">", "h", "<", "/", "b", ">">>],
      [content_type |-> "text/html", payload |-> <<"<", "i", ">", "g">>],
      [content_type |-> "text/html", payload |-> <<"<", ">", "h", "<">>],
      [content_type |-> "application/pdf", payload |-> <<"p">>] }

BodyPartLists == UNION {[1..n -> BodyParts] : n \in 0..MaxParts}

InitBody ==
    /\ fnArgs \in [fn : {"extract_body"}, parts : BodyPartLists,
                   html2text_installed : BOOLEAN]
    /\ fnReturned = FALSE
    /\ fnResult = Pending
    /\ IdleOthers

\* the call returns
CallExtractBody ==
    /\ fnArgs.fn = "extract_body"
    /\ ~fnReturned
    /\ fnReturned' = TRUE
    /\ fnResult' = ExtractBody(fnArgs.parts, fnArgs.html2text_installed)
    /\ UNCHANGED <<fnArgs, emlVars, mdVars, cmdVars>>

SpecBody == InitBody /\ [][CallExtractBody]_vars

(***************************************************************************)
(* Properties of extract_body.                                             *)
(***************************************************************************)
\* the index of the first part of the type, 0 if none
FirstOfType(parts, content_type) ==
    IF \E x \in DOMAIN parts : parts[x].content_type = content_type
    THEN CHOOSE x \in DOMAIN parts :
            /\ parts[x].content_type = content_type
            /\ \A y \in 1..(x - 1) : parts[y].content_type # content_type
    ELSE 0

\* the rendering of HTML text: by html2text, or with the tags stripped
Rendering(html_text) ==
    IF fnArgs.html2text_installed THEN Html2Text(html_text) ELSE StripTags(html_text)

\* C22: extract_body returns the decoded payload of the first text/plain part
\* of the walk if there is one; otherwise the rendering of the first
\* text/html part; otherwise the empty string.  A later part of a type never
\* replaces the first one
C22_BodySelection ==
    (fnReturned /\ fnArgs.fn = "extract_body") =>
        LET firstPlain == FirstOfType(fnArgs.parts, "text/plain")
            firstHtml == FirstOfType(fnArgs.parts, "text/html")
        IN  IF firstPlain # 0
            THEN fnResult = Decode(fnArgs.parts[firstPlain].payload)
            ELSE IF firstHtml # 0
            THEN fnResult = Rendering(Decode(fnArgs.parts[firstHtml].payload))
            ELSE fnResult = <<>>

\* extract_body has returned the text of the plain part that comes after an
\* HTML part
C22_Witness ==
    /\ fnReturned
    /\ fnArgs.fn = "extract_body"
    /\ fnArgs.parts = <<[content_type |-> "text/html", payload |-> <<"<", "b", ">", "h", "<", "/", "b", ">">>],
                        [content_type |-> "text/plain", payload |-> <<"p", "#", "q">>]>>
    /\ fnResult = <<"p", "q">>

(***************************************************************************)
(* generate_basename (eml-view-and-extract-attachments.py) called on any   *)
(* metadata.  An exception that leaves the function is the result          *)
(* <<"raise", its name>>.                                                  *)
(***************************************************************************)
\* the exception leaves the function
Raise(exception) == <<"raise", exception>>

\* the function raised
Raised(r) == Len(r) = 2 /\ r[1] = "raise"

\* the Date header the model's parser accepts, and what
\* parsed.strftime('%Y-%m-%d-%H%M') makes of it
ValidDate == <<"5", " ", "F", "e", "b", " ", "2", "0", "2", "6", " ", "1", "1", ":", "3", "6">>
ValidDatePrefix == <<"2", "0", "2", "6", "-", "0", "2", "-", "0", "5", "-", "1", "1", "3", "6">>

\* email.utils.parsedate_to_datetime(date_str) then strftime: the reformatted
\* date, or ValueError for a text that is no date
DatePrefixOf(date_str) ==
    IF date_str = ValidDate THEN ValidDatePrefix ELSE Raise("ValueError")

\* date_prefix (lines 117-124): "unknown" unless the date is there and parses
DatePrefix(date_str) ==
    IF ~Truthy(date_str) THEN LitUnknown
    ELSE IF Raised(DatePrefixOf(date_str)) THEN LitUnknown
    ELSE DatePrefixOf(date_str)

\* email.utils.parseaddr(from_str) for the shapes `phrase <addr>`,
\* `"quoted phrase" <addr>` and `addr`: <<display_name, addr>>; what is
\* between the quotes is kept as it is
ParseAddr(from_str) ==
    LET open == Find(from_str, "<", 1)
        close == Find(from_str, ">", open + 1)
        phrase == StripWs(Slice(from_str, 1, open - 1))
    IN  IF open # 0 /\ close # 0
        THEN <<IF Len(phrase) >= 2 /\ phrase[1] = "\"" /\ phrase[Len(phrase)] = "\""
               THEN Slice(phrase, 2, Len(phrase) - 1)
               ELSE phrase,
               Slice(from_str, open + 1, close - 1)>>
        ELSE <<<<>>, StripWs(from_str)>>

\* text.split()[0]: the first word, IndexError when the text has no word
FirstWord(text) ==
    LET words == CollapseWs(text)
    IN  IF words = <<>> THEN Raise("IndexError")
        ELSE IF Find(words, " ", 1) = 0 THEN words
        ELSE Slice(words, 1, Find(words, " ", 1) - 1)

\* sender (lines 127-135)
Sender(from_str) ==
    IF ~Truthy(from_str) THEN LitUnknown
    ELSE LET display_name == ParseAddr(from_str)[1]
             addr == ParseAddr(from_str)[2]
         IN  IF display_name # <<>> THEN FirstWord(display_name)
             ELSE IF addr # <<>>
             THEN IF Find(addr, "@", 1) = 0 THEN addr
                  ELSE Slice(addr, 1, Find(addr, "@", 1) - 1)
             ELSE LitUnknown

\* generate_basename(metadata)
GenerateBasename(metadata) ==
    IF Raised(Sender(metadata.from)) THEN Sender(metadata.from)
    ELSE DatePrefix(metadata.date) \o <<"-">> \o Sender(metadata.from)

\* the Date headers: absent, empty, blank, a date, a text that is no date
DateHeaders == {None, <<>>, <<" ">>, ValidDate, <<"x">>}

\* the From headers: absent, empty, blank, name and address, quoted name and
\* address, address alone, address without a local part, a quoted name that
\* is blank, an empty address in angle brackets, a one-word name and
\* address, a word alone
FromHeaders ==
    { None, <<>>, <<" ">>, <<"J", " ", "<", "j", "@", "e", ">">>, <<"j">>,
      <<"J", " ", "S", " ", "<", "j", "@", "e", ">">>,
      <<"\"", "J", " ", "S", "\"", " ", "<", "j", "@", "e", ">">>,
      <<"j", "@", "e">>,
      <<"@", "e">>,
      <<"\"", " ", "\"", " ", "<", "j", "@", "e", ">">>,
      <<"<", ">">> }

InitBasename ==
    /\ fnArgs \in [fn : {"generate_basename"}, from : FromHeaders, date : DateHeaders]
    /\ fnReturned = FALSE
    /\ fnResult = Pending
    /\ IdleOthers

\* the call returns or raises
CallGenerateBasename ==
    /\ fnArgs.fn = "generate_basename"
    /\ ~fnReturned
    /\ fnReturned' = TRUE
    /\ fnResult' = GenerateBasename(fnArgs)
    /\ UNCHANGED <<fnArgs, emlVars, mdVars, cmdVars>>

SpecBasename == InitBasename /\ [][CallGenerateBasename]_vars

\* C23: whatever the date and from fields (absent, empty, malformed),
\* generate_basename returns without raising, and what it returns is
\* <date part>-<sender>, the date part "unknown" or the reformatted date, the
\* sender not empty
C23_BasenameTotal ==
    (fnReturned /\ fnArgs.fn = "generate_basename") =>
        /\ ~Raised(fnResult)
        /\ \E date_prefix \in {LitUnknown, ValidDatePrefix} :
              /\ Len(fnResult) > Len(date_prefix) + 1
              /\ Slice(fnResult, 1, Len(date_prefix) + 1) = date_prefix \o <<"-">>

(***************************************************************************)
(* generate_email_filename and generate_attachment_filename called on any  *)
(* basename, subject and original attachment name.                         *)
(***************************************************************************)
\* the basenames: one of safe characters, and two whose sender part (the
\* first word of the From display name, see Sender) is R&b or (b
NameBasenames == {<<"B">>, <<"B", "-", "R", "&", "b">>, <<"B", "-", "(", "b">>}

\* a subject longer than _clean_for_filename allows
LongSubject == [x \in 1..(MaxLength + 1) |-> "A"]

\* a long subject whose character at the limit is a space
LongSubjectSpaceAtLimit ==
    [x \in 1..(MaxLength + 2) |-> IF x = MaxLength THEN " " ELSE "A"]

\* the subjects: absent, empty, words, unsafe characters, only unsafe
\* characters, too long
NameSubjects ==
    { None, <<>>, <<"s", " ", "s">>, <<"R", "e", ":", " ", "a", " ", "(", "d", ")", " ", "&", " ", "n", "!">>, <<"(", "!", ")">>, <<"a", " ", "-", "-", " ", "b">>,
      LongSubject, LongSubjectSpaceAtLimit }

\* the original attachment names: absent, empty, with a space, with
\* parentheses, with unsafe characters in the extension, without extension,
\* with a leading dot, with two dots, with unsafe characters only in the stem
OriginalNames ==
    { None, <<>>, <<"a", " ", "b", ".", "p">>, <<"a", "(", "1", ")", ".", "p">>, <<"a", " ", "(", "b", ")", ".", "p", " ", "d", "f">>, <<"a", "b">>,
      <<".", "p">>, <<"a", ".", "b", ".", "p">>, <<"a", ":", "b", "&", "c", "!", ".", "p">>, <<"a", ".">>,
      <<"a", ".", "p", "(", "1", ")">>, <<"(", "!", ")", ".", "p">> }

InitNames ==
    /\ fnArgs \in
          [fn : {"generate_email_filename"}, basename : NameBasenames,
           subject : NameSubjects]
          \cup
          [fn : {"generate_attachment_filename"}, basename : NameBasenames,
           original_filename : OriginalNames]
    /\ fnReturned = FALSE
    /\ fnResult = Pending
    /\ IdleOthers

\* generate_email_filename returns
CallGenerateEmailFilename ==
    /\ fnArgs.fn = "generate_email_filename"
    /\ ~fnReturned
    /\ fnReturned' = TRUE
    /\ fnResult' = GenerateEmailFilename(fnArgs.basename, fnArgs.subject)
    /\ UNCHANGED <<fnArgs, emlVars, mdVars, cmdVars>>

\* generate_attachment_filename returns
CallGenerateAttachmentFilename ==
    /\ fnArgs.fn = "generate_attachment_filename"
    /\ ~fnReturned
    /\ fnReturned' = TRUE
    /\ fnResult' = GenerateAttachmentFilename(fnArgs.basename, fnArgs.original_filename)
    /\ UNCHANGED <<fnArgs, emlVars, mdVars, cmdVars>>

NextNames == CallGenerateEmailFilename \/ CallGenerateAttachmentFilename

SpecNames == InitNames /\ [][NextNames]_vars

(***************************************************************************)
(* Properties of the filename functions.                                   *)
(***************************************************************************)
\* the characters a generated filename is said never to contain
UnsafeChars == {" ", "(", ")", "&", "!", ":"}

\* one of the two filename functions has returned
NameReturned ==
    fnReturned /\ fnArgs.fn \in {"generate_email_filename", "generate_attachment_filename"}

\* C24: whatever the basename, the subject and the original attachment name,
\* the filename returned contains no space, parenthesis, ampersand,
\* exclamation mark or colon, and the subject segment after -EMAIL- has at
\* most 80 characters
C24_FilenameSafety ==
    NameReturned =>
        /\ Chars(fnResult) \cap UnsafeChars = {}
        /\ fnArgs.fn = "generate_email_filename" =>
              Len(fnResult) - Len(fnArgs.basename \o LitEmail) <= MaxLength

\* the part of C24 about the length of the subject segment
SubjectSegmentBounded ==
    (NameReturned /\ fnArgs.fn = "generate_email_filename") =>
        Len(fnResult) - Len(fnArgs.basename \o LitEmail) <= MaxLength

\* the part of C24 about the characters, for a basename of safe characters
\* and a name without extension
SafeWhenBasenameSafeAndNoExtension ==
    (NameReturned /\ fnArgs.basename = <<"B">>
        /\ (fnArgs.fn = "generate_attachment_filename" =>
                (~Truthy(fnArgs.original_filename)
                 \/ SplitExt(fnArgs.original_filename)[2] = <<>>))) =>
        Chars(fnResult) \cap UnsafeChars = {}

\* C25: for an original name that is not empty, generate_attachment_filename
\* returns <basename>-ATTACH-<stem><ext>: <ext> is the extension of the
\* original name (from its last dot on, when a character other than a dot
\* precedes that dot), character for character, and <stem> is what precedes it,
\* cleaned; for an absent or empty name it returns <basename>-ATTACH-unnamed
C25_ExtensionPreserved ==
    (fnReturned /\ fnArgs.fn = "generate_attachment_filename") =>
        IF ~Truthy(fnArgs.original_filename)
        THEN fnResult = fnArgs.basename \o LitAttach \o LitUnnamed
        ELSE LET name == fnArgs.original_filename
                 dot == RFind(name, ".")
                 hasExt == dot # 0 /\ \E x \in 1..(dot - 1) : name[x] # "."
                 ext == IF hasExt THEN Slice(name, dot, Len(name)) ELSE <<>>
                 stem == Slice(name, 1, Len(name) - Len(ext))
                 head == fnArgs.basename \o LitAttach
             IN  /\ Len(fnResult) >= Len(head) + Len(ext)
                 /\ Slice(fnResult, 1, Len(head)) = head
                 /\ Slice(fnResult, Len(fnResult) - Len(ext) + 1, Len(fnResult)) = ext
                 /\ Slice(fnResult, Len(head) + 1, Len(fnResult) - Len(ext)) =
                        CleanForFilename(stem, MaxLength)

\* generate_attachment_filename has returned a name whose stem was cleaned and
\* whose extension, with a space in it, is the original one
C25_Witness ==
    /\ fnReturned
    /\ fnArgs.fn = "generate_attachment_filename"
    /\ fnArgs.basename = <<"B">>
    /\ fnArgs.original_filename = <<"a", " ", "(", "b", ")", ".", "p", " ", "d", "f">>
    /\ fnResult = <<"B">> \o LitAttach \o <<"a", "-", "b", ".", "p", " ", "d", "f">>

(***************************************************************************)
(* save_attachments inside the pipeline: the records and the staged files  *)
(* while its loop runs and when it returns.                                *)
(***************************************************************************)
\* the parts save_attachments' loop has visited
VisitedParts == SubSeq(msg.parts, 1, i - 1)

\* the visited parts that are not multipart, carry a disposition header and
\* have a filename
QualifyingVisited ==
    SelectSeq(VisitedParts,
              LAMBDA q : ~q.multipart /\ q.disposition /\ q.filename # None
                         /\ q.filename # <<>>)

\* the names of the files save_attachments has written
AttachmentsWritten == DOMAIN temp \ {RenamedEml, RenamedTxt}

\* C26: while save_attachments runs and when it returns, its records are
\* one per visited part that is not multipart, has a disposition header and
\* has a filename, in walk order, each with a file written under its
\* renamed name, and no other file is written; with no such part the list
\* is empty and nothing is written.
C26_AttachmentQualification ==
    pc = "attach" =>
        /\ Len(attachment_results) = Len(QualifyingVisited)
        /\ \A k \in 1..Len(QualifyingVisited) :
              /\ attachment_results[k].original_name = QualifyingVisited[k].filename
              /\ attachment_results[k].path =
                     <<"temp", attachment_results[k].renamed_name>>
              /\ Exists(temp, attachment_results[k].renamed_name)
        /\ AttachmentsWritten =
               {attachment_results[k].renamed_name : k \in 1..Len(attachment_results)}
        /\ (QualifyingVisited = <<>> =>
               attachment_results = <<>> /\ AttachmentsWritten = {})

\* save_attachments has walked a message whose first part has a disposition
\* and no filename and whose second part is an attachment, and returns the
\* one record
C26_Witness ==
    /\ pc = "attach"
    /\ i = Len(msg.parts) + 1
    /\ Len(msg.parts) = 2
    /\ msg.parts[1].disposition /\ msg.parts[1].filename = None
    /\ msg.parts[2].disposition /\ msg.parts[2].filename = <<"b", ".", "p">>
    /\ Len(attachment_results) = 1
    /\ attachment_results[1].original_name = <<"b", ".", "p">>
    /\ AttachmentsWritten = {attachment_results[1].renamed_name}

\* C27: temp_dir is created only when the destination directory exists, the
\* destination directory is never removed, and it exists when process_eml
\* ends in any way other than by os.makedirs raising.
C27_DestinationFirst ==
    [][ /\ (~tempExists /\ tempExists' => outputExists)
        /\ (outputExists => outputExists')
        /\ (pc' = "exit" /\ pc \notin {"call", "exit"} => outputExists') ]_vars

\* a run into a destination directory that did not exist at the call has
\* returned: the directory exists and holds the run's files
C27_Witness ==
    /\ ~outputExisted
    /\ outputExists
    /\ pc = "exit"
    /\ result = "ok"
    /\ Exists(output, RenamedEml)

\* C28: the names of the FileRecords of a run are pairwise distinct.
C28_DistinctNames ==
    \A j, k \in DOMAIN files : j # k => files[j].name # files[k].name

(***************************************************************************)
(* Two runs of process_eml on the same message and destination.  The other *)
(* run stages in a temp_dir of its own (mkdtemp gives each run a new one), *)
(* so only its steps on the destination are modelled: makedirs, the        *)
(* collision loop and the move loop.                                       *)
(***************************************************************************)
\* the records the other run's save_attachments returns
OtherResults ==
    [k \in 1..Len(AttachmentParts) |->
        [original_name |-> AttachmentParts[k].filename,
         renamed_name |-> GenerateAttachmentFilename(Basename, AttachmentParts[k].filename),
         path |-> <<"temp", GenerateAttachmentFilename(Basename, AttachmentParts[k].filename)>>]]

\* the other run's FileRecord list
OtherFiles == BuildFiles(OtherResults)

\* the content of the k-th file the other run staged
OtherContent(k) == <<"other", k>>

\* the names this run's collision loop has passed and its move loop has not
\* moved yet
InGap ==
    IF pc = "check" THEN {files[k].name : k \in 1..(i - 1)}
    ELSE IF pc = "move" THEN {files[k].name : k \in i..Len(files)}
    ELSE {}

\* the other run is called: os.makedirs(output_dir, exist_ok=True), then its
\* staging
OtherStart ==
    /\ otherPc = "idle"
    /\ outputExists' = TRUE
    /\ otherPc' = "check"
    /\ otherI' = 1
    /\ UNCHANGED <<msg, inbox, output, tempExists, temp, pc, i,
                   attachment_results, files, result, errName, run, pre, staged,
                   checked, moved, prevResult, outputExisted, otherResult,
                   gapWrites>>
    /\ UNCHANGED <<mdVars, cmdVars, fnVars, srcVars>>

\* one iteration of the other run's collision loop
OtherCheck ==
    /\ otherPc = "check"
    /\ otherI <= Len(OtherFiles)
    /\ IF Collides(OtherFiles[otherI], output)
       THEN /\ otherResult' = "collision"
            /\ otherPc' = "exit"
            /\ UNCHANGED otherI
       ELSE /\ otherI' = otherI + 1
            /\ UNCHANGED <<otherResult, otherPc>>
    /\ UNCHANGED <<msg, inbox, output, outputExists, tempExists, temp, pc, i,
                   attachment_results, files, result, errName, run, pre, staged,
                   checked, moved, prevResult, outputExisted, gapWrites>>
    /\ UNCHANGED <<mdVars, cmdVars, fnVars, srcVars>>

\* the other run's collision loop ends without a collision
OtherCheckDone ==
    /\ otherPc = "check"
    /\ otherI > Len(OtherFiles)
    /\ otherPc' = "move"
    /\ otherI' = 1
    /\ UNCHANGED <<msg, inbox, output, outputExists, tempExists, temp, pc, i,
                   attachment_results, files, result, errName, run, pre, staged,
                   checked, moved, prevResult, outputExisted, otherResult,
                   gapWrites>>
    /\ UNCHANGED <<mdVars, cmdVars, fnVars, srcVars>>

\* one iteration of the other run's move loop: shutil.move raises
\* FileNotFoundError when an earlier record had the same name, else
\* replaces dest
OtherMove ==
    /\ otherPc = "move"
    /\ otherI <= Len(OtherFiles)
    /\ LET name == OtherFiles[otherI].name
       IN  IF \E j \in 1..(otherI - 1) : OtherFiles[j].name = name
           THEN /\ otherResult' = "error"
                /\ otherPc' = "exit"
                /\ UNCHANGED <<output, otherI, gapWrites>>
           ELSE /\ output' = WriteFile(output, name, OtherContent(otherI))
                /\ gapWrites' = gapWrites \cup ({name} \cap InGap)
                /\ otherI' = otherI + 1
                /\ UNCHANGED <<otherResult, otherPc>>
    /\ UNCHANGED <<msg, inbox, outputExists, tempExists, temp, pc, i,
                   attachment_results, files, result, errName, run, pre, staged,
                   checked, moved, prevResult, outputExisted>>
    /\ UNCHANGED <<mdVars, cmdVars, fnVars, srcVars>>

\* the other run returns
OtherReturn ==
    /\ otherPc = "move"
    /\ otherI > Len(OtherFiles)
    /\ otherResult' = "ok"
    /\ otherPc' = "exit"
    /\ UNCHANGED <<msg, inbox, output, outputExists, tempExists, temp, pc, i,
                   attachment_results, files, result, errName, run, pre, staged,
                   checked, moved, prevResult, outputExisted, otherI, gapWrites>>
    /\ UNCHANGED <<mdVars, cmdVars, fnVars, srcVars>>

\* one run is called, the other not yet; every part of the message is an
\* attachment (other parts put no file in the destination)
InitRace ==
    /\ Init
    /\ \A k \in DOMAIN msg.parts : Qualifies(msg.parts[k])

NextRace ==
    \/ Makedirs
    \/ Mkdtemp
    \/ CopyEml
    \/ RenameEml
    \/ SaveText
    \/ SaveAttachment
    \/ BuildFileList
    \/ CheckCollision
    \/ CheckDone
    \/ MoveFile
    \/ Return
    \/ Cleanup
    \/ OtherStart
    \/ OtherCheck
    \/ OtherCheckDone
    \/ OtherMove
    \/ OtherReturn

\* two runs of the pipeline on one destination, their steps interleaved
SpecRace == InitRace /\ [][NextRace]_vars

\* C29: a move of the run replaces a file of the destination only if
\* another writer put that file there after the run's collision loop had
\* passed its name and before the move: with no write in that gap nothing
\* is overwritten, and with one the file is replaced and no collision is
\* signalled.
C29_CheckToCommitGap ==
    [][ (pc = "move" /\ moved' = moved + 1 /\ Exists(output, files[i].name))
            => /\ files[i].name \in gapWrites
               /\ result' = "none" ]_vars

\* both runs passed their collision loops and returned; this run's move has
\* replaced the .eml file the other run had put in the destination
C29_Witness ==
    /\ pc = "exit" /\ result = "ok"
    /\ otherPc = "exit" /\ otherResult = "ok"
    /\ RenamedEml \in gapWrites
    /\ output[RenamedEml] = SrcContent

(***************************************************************************)
(* The name rename_with_flag gives a file, as a function of the filename   *)
(* and the flag.                                                           *)
(***************************************************************************)
\* the longest suffix after the unique part of the names tried
MaxSuffix == 5

\* a seeded fault of WithFlag: the flags of the filename are dropped
WithFlagReplacing(filename, flag) ==
    BuildFlaggedFilename(filename, <<flag>>)

\* the file's name after rename_with_flag(filename, flag): unchanged when
\* the flag is in current_flags, else built from current_flags + flag
WithFlag(filename, flag) ==
    LET current_flags == ParseMaildirFlags(filename)[2]
    IN  IF AlreadySet(flag, current_flags)
        THEN filename
        ELSE BuildFlaggedFilename(filename, current_flags \o <<flag>>)

\* the characters of the suffixes: the marker's and the flags'
SuffixChars == {":", "2", ",", "F", "S"}

\* the filenames: the unique part, then any text of up to MaxSuffix
\* characters (no marker, one, one inside the flags, flags unsorted or
\* repeated, marker characters among the flags)
RoundTripNames ==
    {Unique \o t : t \in UNION {[1..n -> SuffixChars] : n \in 0..MaxSuffix}}
    \cup MaildirNames

\* the flags added: Seen, Flagged, Replied
RoundTripFlags == {"S", "F", "R"}

InitRoundTrip ==
    /\ fnArgs \in [fn : {"with_flag"}, filename : RoundTripNames,
                    flag : RoundTripFlags]
    /\ fnReturned = FALSE
    /\ fnResult = Pending
    /\ IdleOthers

\* the name is rewritten
CallWithFlag ==
    /\ fnArgs.fn = "with_flag"
    /\ ~fnReturned
    /\ fnReturned' = TRUE
    /\ fnResult' = WithFlag(fnArgs.filename, fnArgs.flag)
    /\ UNCHANGED <<fnArgs, emlVars, mdVars, cmdVars>>

SpecRoundTrip == InitRoundTrip /\ [][CallWithFlag]_vars

\* the text holds the marker
HasMarker(s) == \E x \in 1..(Len(s) - 2) : SubSeq(s, x, x + 2) = Marker

\* parse_maildir_flags splits the name at its last marker: the parts put
\* together give the name and the flags hold no marker; a name without a
\* marker is its own unique part, with no flags
SplitAtLastMarker(name) ==
    LET parsed == ParseMaildirFlags(name)
    IN  IF HasMarker(name)
        THEN /\ name = parsed[1] \o Marker \o parsed[2]
             /\ ~HasMarker(parsed[2])
        ELSE parsed = <<name, <<>>>>

\* C30: parse_maildir_flags of the name rename_with_flag produces gives the
\* unique part of the original name (what precedes its last marker, or the
\* whole name) and, as a set, the original flags and the added flag.
C30_RoundTrip ==
    (fnReturned /\ fnArgs.fn = "with_flag") =>
        LET before == ParseMaildirFlags(fnArgs.filename)
            after == ParseMaildirFlags(fnResult)
        IN  /\ SplitAtLastMarker(fnArgs.filename)
            /\ SplitAtLastMarker(fnResult)
            /\ after[1] = before[1]
            /\ Chars(after[2]) = Chars(before[2]) \cup {fnArgs.flag}

\* Seen was added to a name whose unique part holds a marker and whose
\* flags are F: the unique part is kept and the flags are F and S
C30_Witness ==
    /\ fnReturned
    /\ fnArgs.fn = "with_flag"
    /\ fnArgs.filename = Unique \o Marker \o <<"S">> \o Marker \o <<"F">>
    /\ fnArgs.flag = "S"
    /\ fnResult = Unique \o Marker \o <<"S">> \o Marker \o <<"F", "S">>

(***************************************************************************)
(* _clean_for_filename on its own.                                         *)
(***************************************************************************)
\* the longest short text cleaned
MaxText == 5

\* the characters of the texts: whitespace, hyphen, a word character, an
\* unsafe character
TextChars == {" ", "-", "a", "!"}

\* the texts of at most MaxText characters
ShortTexts == UNION {[1..n -> TextChars] : n \in 0..MaxText}

\* word characters up to three below max_length
Padding == [x \in 1..(MaxLength - 3) |-> "A"]

\* the texts cleaned: the short ones, and each of them after the padding,
\* so that its characters are around the cut at max_length
CleanTexts == ShortTexts \cup {Padding \o t : t \in ShortTexts}

InitClean ==
    /\ fnArgs \in [fn : {"_clean_for_filename"}, text : CleanTexts]
    /\ fnReturned = FALSE
    /\ fnResult = Pending
    /\ IdleOthers

\* _clean_for_filename(text) returns
CallCleanForFilename ==
    /\ fnArgs.fn = "_clean_for_filename"
    /\ ~fnReturned
    /\ fnReturned' = TRUE
    /\ fnResult' = CleanForFilename(fnArgs.text, MaxLength)
    /\ UNCHANGED <<fnArgs, emlVars, mdVars, cmdVars>>

SpecClean == InitClean /\ [][CallCleanForFilename]_vars

\* C31: what _clean_for_filename returns holds only word characters,
\* hyphens and dots, has no two hyphens in a row, neither starts nor ends
\* with a hyphen, has at most 80 characters, and is returned unchanged when
\* cleaned again.
C31_CleanNormalForm ==
    (fnReturned /\ fnArgs.fn = "_clean_for_filename") =>
        /\ Chars(fnResult) \subseteq WordChars \cup {"-", "."}
        /\ \A x \in 1..(Len(fnResult) - 1) :
               ~(fnResult[x] = "-" /\ fnResult[x + 1] = "-")
        /\ fnResult # <<>> =>
               (fnResult[1] # "-" /\ fnResult[Len(fnResult)] # "-")
        /\ Len(fnResult) <= MaxLength
        /\ CleanForFilename(fnResult, MaxLength) = fnResult

\* a text was cleaned whose 80th cleaned character is a hyphen: it is cut to
\* the 79 characters before the hyphen
C31_Witness ==
    /\ fnReturned
    /\ fnArgs.fn = "_clean_for_filename"
    /\ fnArgs.text = Padding \o <<"a", "a", " ", "!", "a">>
    /\ fnResult = Padding \o <<"a", "a">>

\* C32: generate_email_filename returns <basename>-EMAIL-no-subject when the
\* subject is absent or the empty string, and <basename>-EMAIL-<cleaned
\* subject> for any other subject, which is <basename>-EMAIL- when cleaning
\* removes every character of the subject.
C32_SubjectFallback ==
    (fnReturned /\ fnArgs.fn = "generate_email_filename") =>
        LET head == fnArgs.basename \o LitEmail
            segment == Slice(fnResult, Len(head) + 1, Len(fnResult))
        IN  /\ Len(fnResult) >= Len(head)
            /\ Slice(fnResult, 1, Len(head)) = head
            /\ IF fnArgs.subject = None \/ fnArgs.subject = <<>>
               THEN segment = <<"n", "o", "-", "s", "u", "b", "j", "e", "c", "t">>
               ELSE /\ segment = CleanForFilename(fnArgs.subject, MaxLength)
                    /\ (Chars(fnArgs.subject) \subseteq UnsafeChars => segment = <<>>)

\* generate_email_filename has returned for a subject of unsafe characters
\* only: nothing follows -EMAIL-
C32_Witness ==
    /\ fnReturned
    /\ fnArgs.fn = "generate_email_filename"
    /\ fnArgs.basename = <<"B">>
    /\ fnArgs.subject = <<"(", "!", ")">>
    /\ fnResult = <<"B", "-", "E", "M", "A", "I", "L", "-">>

(***************************************************************************)
(* process_eml when output_dir may be the directory of the source file:    *)
(* the source file is then one of the destination's files, under any name, *)
(* also one the run produces.                                              *)
(***************************************************************************)
\* the names of the source file: one no run produces, and the names a run
\* produces
SrcNames == {SrcName} \cup CandidateNames

\* process_eml is called with output_dir the source file's directory, or
\* another directory; every part of the message is an attachment
InitSameDir ==
    /\ msg \in Messages
    /\ \A k \in DOMAIN msg.parts : Qualifies(msg.parts[k])
    /\ sameDir \in BOOLEAN
    /\ srcName \in SrcNames
    /\ \E d \in InitialDirs :
          IF sameDir
          THEN /\ inbox = EmptyDir
               /\ output = WriteFile(d, srcName, SrcContent)
               /\ outputExists = TRUE
          ELSE /\ inbox = [n \in {srcName} |-> SrcContent]
               /\ output = d
               /\ outputExists \in BOOLEAN
               /\ (~outputExists => output = EmptyDir)
    /\ tempExists = FALSE
    /\ temp = EmptyDir
    /\ pc = "call"
    /\ i = 1
    /\ attachment_results = <<>>
    /\ files = <<>>
    /\ result = "none"
    /\ errName = None
    /\ run = 1
    /\ pre = output
    /\ staged = {}
    /\ checked = 0
    /\ moved = 0
    /\ prevResult = "none"
    /\ outputExisted = outputExists
    /\ otherPc = "idle"
    /\ otherI = 1
    /\ otherResult = "none"
    /\ gapWrites = {}
    /\ IdleFlag
    /\ IdleCmd
    /\ IdleFn

\* the pipeline, filesystem calls failing or not, on a destination that may
\* be the source file's directory
SpecSameDir == InitSameDir /\ [][NextFault]_vars

\* C33: whatever process_eml does and however it ends, the source file is
\* in its directory under its name, with its content, also when that
\* directory is the destination.
C33_SourceUntouched ==
    /\ Exists(SrcDir, srcName)
    /\ SrcDir[srcName] = SrcContent

\* a run whose destination is the source file's directory has returned: its
\* files are beside the source file, which is as it was
C33_Witness ==
    /\ sameDir
    /\ pc = "exit"
    /\ result = "ok"
    /\ Len(files) = 3
    /\ srcName # RenamedEml
    /\ DOMAIN output = {srcName, RenamedEml, RenamedTxt, files[3].name}
    /\ output[srcName] = SrcContent

\* a run whose destination is the source file's directory, the source file
\* having the name of the run's .eml file, has failed on the collision
C33_WitnessSameName ==
    /\ sameDir
    /\ pc = "exit"
    /\ result = "collision"
    /\ srcName = RenamedEml
    /\ errName = srcName

\* C34: a call of rename_with_flag leaves the number of message files of
\* new/ and cur/ together as it was before the call.
C34_NoMessageLost ==
    Cardinality(DOMAIN new) + Cardinality(DOMAIN cur) =
        Cardinality(DOMAIN preNew) + Cardinality(DOMAIN preCur)

\* C35: when a mark-read scan that is not a dry run has returned with no
\* error, new/ holds no file and every file of cur/ carries the S flag.
C35_SeenImpliesCur ==
    (ScanDone /\ ~args.dry_run /\ totals.errors = 0) =>
        /\ new = EmptyDir
        /\ \A n \in DOMAIN cur : "S" \in Chars(ParseMaildirFlags(n)[2])

====
